---- MODULE Spec2Model ----
(***************************************************************************)
(* A model of the chess engine's search core (Minimax::evaluate_at_depth   *)
(* with its transposition table, Minimax::quiesce), of the iterative-      *)
(* deepening driver (MainSearch::evaluate), of the packed 16-bit Move      *)
(* (Move::new, Move::from_uci, Move::to_uci), of the UCI message builder   *)
(* (build_message) and of the tuner (train_step, extract).                 *)
(***************************************************************************)
EXTENDS Integers, Sequences, FiniteSets, TLC

VARIABLES
    game,       \* the position under search: a bounded game graph (search part)
    depthCfg,   \* Minimax.depth, the depth evaluate() searches to
    table,      \* Minimax.transpose_table: Board -> TTableEntry
    score,      \* the value Minimax::evaluate returned ("none" before the call)
    stats,      \* num_nodes_evaluated, num_transpositions
    drv,        \* MainSearch::evaluate: the driver's locals and its history
    mv,         \* the Move part: the call's inputs and its result
    snd,        \* build_message: the message and the text built from it
    tun,        \* the tuner: the call's inputs and its result
    qs,         \* the search of search.rs: the position, the call and its result
    app         \* CrabchessApp::run: the game, the streams and the loop's position

vars == <<game, depthCfg, table, score, stats, drv, mv, snd, tun, qs, app>>

(***************************************************************************)
(* Bounds of the model.                                                    *)
(***************************************************************************)
\* static evaluations of non-terminal positions range over -MaxCp..MaxCp
MaxCp == 1
\* Minimax.depth ranges over 1..MaxDepth
MaxDepth == 4
\* SearchConfig.depth of the driver ranges over 1..MaxIterDepth
MaxIterDepth == 2
\* SearchConfig.n_helpers ranges over 0..MaxHelpers
MaxHelpers == 1
\* the milliseconds elapsed since the driver started range over 0..MaxMillis
MaxMillis == 1

Max(a, b) == IF a >= b THEN a ELSE b
Min(a, b) == IF a <= b THEN a ELSE b

(***************************************************************************)
(* Eval: centipawns or a mate distance.  mate_in(n) dominates every cp     *)
(* value, step_back moves a mate score one ply further from the mate.      *)
(***************************************************************************)
MATE_0_VAL == 100
MATE_CUTOFF == 50
EvalMAX == 110
EvalMIN == -110

mate_in(nplies) == MATE_0_VAL - nplies

step_back(e) ==
    IF e > MATE_CUTOFF THEN e - 1
    ELSE IF e < -MATE_CUTOFF THEN e + 1
    ELSE e

WHITE == "WHITE"
BLACK == "BLACK"
opposite_color(c) == IF c = WHITE THEN BLACK ELSE WHITE

(***************************************************************************)
(* The game: positions are the nodes of a bounded graph.  A node is a      *)
(* Board (the key of the transposition table): two lines of play that      *)
(* reach the same node are a transposition.  Skeletons gives, per graph,   *)
(* the moves of each node in the order the move generator lists them.      *)
(***************************************************************************)
Skeletons == <<
    \* a binary tree of two plies
    << <<2, 3>>, <<4, 5>>, <<6, 7>>, <<>>, <<>>, <<>>, <<>> >>,
    \* node 5 is reached by 1-2-5 and by 1-3-5: a transposition at one depth
    << <<2, 3>>, <<4, 5>>, <<5, 6>>, <<7>>, <<7, 8>>, <<8>>, <<>>, <<>> >>,
    \* node 3 is reached after two plies (1-2-3) and after four (1-6-7-8-3)
    << <<2, 6>>, <<3, 9>>, <<4>>, <<5>>, <<>>, <<7>>, <<8>>, <<3, 9>>, <<>> >>
>>

NodesOf(sk) == DOMAIN Skeletons[sk]

\* the nodes some line of exactly p plies from the root reaches
RECURSIVE AtPly(_, _)
AtPly(sk, p) ==
    IF p = 0 THEN {1}
    ELSE UNION { { Skeletons[sk][n][i] : i \in DOMAIN Skeletons[sk][n] } : n \in AtPly(sk, p - 1) }

\* the nodes some line of at most d plies from the root reaches
Reached(sk, d) == UNION { AtPly(sk, p) : p \in 0..d }

\* the number of plies of the shortest line to node n (n is reached within d)
PlyOf(sk, n, d) == CHOOSE p \in 0..d : n \in AtPly(sk, p) /\ \A q \in 0..(p - 1) : n \notin AtPly(sk, q)

Cp == (0 - MaxCp)..MaxCp

\* what a node may be in a search of depth d: a position with moves ("no"),
\* a checkmate of the side to move ("mate") or a stalemate ("draw"); its
\* static evaluation matters only where the search can stop on it
NodeChoices(sk, d, n) ==
    LET live == { [over |-> "no", static |-> c] : c \in Cp }
        mate == { [over |-> "mate", static |-> 0] }
        draw == { [over |-> "draw", static |-> 0] }
        quiet == { [over |-> "no", static |-> 0] }
    IN IF n = 1 \/ n \notin Reached(sk, d) THEN quiet
       ELSE IF Skeletons[sk][n] = <<>> /\ n \in Reached(sk, d - 1) THEN mate \cup draw
       ELSE IF n \in AtPly(sk, d) THEN live \cup mate
       ELSE quiet \cup mate

\* the orders the moves of a node may come in: as listed, or reversed
OrderChoices(sk, d, n) ==
    IF n \in Reached(sk, d - 1) /\ Len(Skeletons[sk][n]) > 1 THEN BOOLEAN ELSE {FALSE}

\* all functions f on DOMAIN ch with f[n] \in ch[n]
RECURSIVE SeqSet(_, _)
SeqSet(ch, k) ==
    IF k = 0 THEN { <<>> }
    ELSE { Append(f, v) : f \in SeqSet(ch, k - 1), v \in ch[k] }
FnSet(ch) == SeqSet(ch, Len(ch))

Reverse(s) == [i \in 1..Len(s) |-> s[Len(s) + 1 - i]]

\* the Game handed to the engine: mgen.get_moves lists moves[n] in this order
MakeGame(sk, side, d, attr, rev) ==
    [ sk |-> sk,
      moves |-> [n \in NodesOf(sk) |->
                    IF attr[n].over # "no" THEN <<>>
                    ELSE IF rev[n] THEN Reverse(Skeletons[sk][n]) ELSE Skeletons[sk][n]],
      player_to_move |-> [n \in NodesOf(sk) |->
                    IF n \notin Reached(sk, d) \/ PlyOf(sk, n, d) % 2 = 0
                    THEN side ELSE opposite_color(side)],
      over |-> [n \in NodesOf(sk) |-> attr[n].over],
      static |-> [n \in NodesOf(sk) |-> attr[n].static],
      rev |-> rev ]

(***************************************************************************)
(* The collaborators of the search.                                        *)
(***************************************************************************)
get_moves(g, b) == g.moves[b]

is_game_over(g, b) == g.over[b] # "no"

\* the static evaluator: a checkmate is mate_in(0) for the side that mates
\* (scores are White's: White maximises, Black minimises), a stalemate a draw
evaluator(g, b) ==
    IF g.over[b] = "mate"
    THEN (IF g.player_to_move[b] = BLACK THEN mate_in(0) ELSE 0 - mate_in(0))
    ELSE IF g.over[b] = "draw" THEN 0
    ELSE g.static[b]

\* HashMap::insert: the entry of board b is replaced
insert(tt, b, e) == [x \in DOMAIN tt \cup {b} |-> IF x = b THEN e ELSE tt[x]]

TTableEntry(depth, lower_bound, upper_bound) ==
    [depth |-> depth, lower_bound |-> lower_bound, upper_bound |-> upper_bound]

StoredEntryAlwaysExact(depth, evaluation, alpha, beta) ==
    TTableEntry(depth, evaluation, evaluation)

\* the classification of a searched node's value against its window
StoredEntry(depth, evaluation, alpha, beta) ==
    LET upper1 == IF evaluation <= alpha THEN evaluation ELSE EvalMAX
        lower1 == IF evaluation >= beta THEN evaluation ELSE EvalMIN
        inside == alpha < evaluation /\ evaluation < beta
    IN TTableEntry(depth,
                   IF inside THEN evaluation ELSE lower1,
                   IF inside THEN evaluation ELSE upper1)

\* the value a searched node returns: one ply further from a mate
ReturnedValueUnstepped(ev) == ev
ReturnedValue(ev) == step_back(ev)

\* whether the entry of board b answers a search of this depth
ProbeHit(tt, b, depth) == b \in DOMAIN tt /\ tt[b].depth >= depth

(***************************************************************************)
(* Minimax::evaluate_at_depth.  m is the engine's mutable state            *)
(* [tt, nodes, transpositions]; the result is [eval, m].                   *)
(***************************************************************************)
RECURSIVE evaluate_at_depth(_, _, _, _, _, _)
RECURSIVE SearchMoves(_, _, _, _, _, _, _, _, _, _, _)

SearchMovesWrongCut(g, depth, b, i, evaluation, alpha_changing, beta_changing, alpha, beta, m, player) ==
    IF i > Len(get_moves(g, b)) THEN [eval |-> evaluation, m |-> m]
    ELSE LET r == evaluate_at_depth(g, depth - 1, alpha_changing, beta_changing,
                                    get_moves(g, b)[i], m)
         IN IF player = WHITE
            THEN LET ev == Max(evaluation, r.eval)
                 IN IF ev >= alpha THEN [eval |-> ev, m |-> r.m]
                    ELSE SearchMoves(g, depth, b, i + 1, ev, Max(alpha_changing, ev),
                                     beta_changing, alpha, beta, r.m, player)
            ELSE LET ev == Min(evaluation, r.eval)
                 IN IF ev <= beta THEN [eval |-> ev, m |-> r.m]
                    ELSE SearchMoves(g, depth, b, i + 1, ev, alpha_changing,
                                     Min(beta_changing, ev), alpha, beta, r.m, player)

\* the loop over the moves of board b, from the i-th move on
SearchMoves(g, depth, b, i, evaluation, alpha_changing, beta_changing, alpha, beta, m, player) ==
    IF i > Len(get_moves(g, b)) THEN [eval |-> evaluation, m |-> m]
    ELSE LET r == evaluate_at_depth(g, depth - 1, alpha_changing, beta_changing,
                                    get_moves(g, b)[i], m)
         IN IF player = WHITE
            THEN LET ev == Max(evaluation, r.eval)
                 IN IF ev >= beta THEN [eval |-> ev, m |-> r.m]
                    ELSE SearchMoves(g, depth, b, i + 1, ev, Max(alpha_changing, ev),
                                     beta_changing, alpha, beta, r.m, player)
            ELSE LET ev == Min(evaluation, r.eval)
                 IN IF ev <= alpha THEN [eval |-> ev, m |-> r.m]
                    ELSE SearchMoves(g, depth, b, i + 1, ev, alpha_changing,
                                     Min(beta_changing, ev), alpha, beta, r.m, player)

evaluate_at_depth(g, depth, alpha_in, beta_in, b, m0) ==
    LET m1 == [m0 EXCEPT !.nodes = @ + 1]
        hit == ProbeHit(m1.tt, b, depth)
        m2 == IF hit THEN [m1 EXCEPT !.transpositions = @ + 1] ELSE m1
    IN IF hit /\ m1.tt[b].lower_bound >= beta_in
       THEN [eval |-> m1.tt[b].lower_bound, m |-> m2]
       ELSE IF hit /\ m1.tt[b].upper_bound <= alpha_in
       THEN [eval |-> m1.tt[b].upper_bound, m |-> m2]
       ELSE
       LET alpha == IF hit THEN Max(alpha_in, m1.tt[b].lower_bound) ELSE alpha_in
           beta == IF hit THEN Min(beta_in, m1.tt[b].upper_bound) ELSE beta_in
       IN IF depth <= 0 \/ is_game_over(g, b)
          THEN LET eval == evaluator(g, b)
               IN [eval |-> eval,
                   m |-> [m2 EXCEPT !.tt = insert(@, b, TTableEntry(depth, eval, eval))]]
          ELSE LET player_to_move == g.player_to_move[b]
                   r == SearchMoves(g, depth, b, 1,
                                    IF player_to_move = WHITE THEN EvalMIN ELSE EvalMAX,
                                    alpha_in, beta_in, alpha, beta, m2, player_to_move)
                   evaluation == ReturnedValue(r.eval)
               IN [eval |-> evaluation,
                   m |-> [r.m EXCEPT !.tt =
                            insert(@, b, StoredEntry(depth, evaluation, alpha, beta))]]

\* Minimax::default(): an empty table, zeroed counters
NewEngine == [tt |-> <<>>, nodes |-> 0, transpositions |-> 0]

\* Engine::evaluate for Minimax: the counters are reset, the table is kept
evaluate(g, d, m) ==
    evaluate_at_depth(g, d, EvalMIN, EvalMAX, 1, [m EXCEPT !.nodes = 0, !.transpositions = 0])

(***************************************************************************)
(* The search as a state machine: a fresh engine evaluates one position.   *)
(***************************************************************************)
DrvIdle == [pc |-> "idle"]
SndIdle == [pc |-> "idle"]
TunIdle == [pc |-> "idle"]
QsIdle == [pc |-> "idle"]
MvIdle == [pc |-> "idle"]
AppIdle == [pc |-> "idle"]
NoScore == [done |-> FALSE, eval |-> 0]

SearchInit ==
    /\ depthCfg \in 1..MaxDepth
    /\ \E sk \in DOMAIN Skeletons, side \in {WHITE, BLACK} :
         \E attr \in FnSet([n \in NodesOf(sk) |-> NodeChoices(sk, depthCfg, n)]),
            rev \in FnSet([n \in NodesOf(sk) |-> OrderChoices(sk, depthCfg, n)]) :
            game = MakeGame(sk, side, depthCfg, attr, rev)
    /\ table = NewEngine.tt
    /\ stats = [nodes |-> 0, transpositions |-> 0]
    /\ score = NoScore
    /\ drv = DrvIdle
    /\ mv = MvIdle
    /\ snd = SndIdle
    /\ tun = TunIdle
    /\ qs = QsIdle
    /\ app = AppIdle

\* Engine::evaluate
Evaluate ==
    /\ ~score.done
    /\ LET r == evaluate(game, depthCfg,
                         [tt |-> table, nodes |-> stats.nodes,
                          transpositions |-> stats.transpositions])
       IN /\ score' = [done |-> TRUE, eval |-> r.eval]
          /\ table' = r.m.tt
          /\ stats' = [nodes |-> r.m.nodes, transpositions |-> r.m.transpositions]
    /\ UNCHANGED <<game, depthCfg, drv, mv, snd, tun, qs, app>>

SearchNext == Evaluate

SpecSearch == SearchInit /\ [][SearchNext]_vars

(***************************************************************************)
(* The reference: exhaustive minimax of the given depth, no window and no  *)
(* table, step_back applied once per interior ply.                         *)
(***************************************************************************)
RECURSIVE PlainMinimax(_, _, _)
PlainMinimax(g, depth, b) ==
    IF depth <= 0 \/ g.over[b] # "no" THEN evaluator(g, b)
    ELSE LET vals == { PlainMinimax(g, depth - 1, g.moves[b][i]) : i \in DOMAIN g.moves[b] }
             best == IF g.player_to_move[b] = WHITE
                     THEN CHOOSE v \in vals : \A w \in vals : w <= v
                     ELSE CHOOSE v \in vals : \A w \in vals : w >= v
         IN step_back(best)

RECURSIVE GameAtPly(_, _)
GameAtPly(g, p) ==
    IF p = 0 THEN {1}
    ELSE UNION { { g.moves[n][i] : i \in DOMAIN g.moves[n] } : n \in GameAtPly(g, p - 1) }

\* no position of g is reached at two different plies of a depth-d search
SingleDepth(g, d) ==
    \A p \in 0..d, q \in 0..d : p # q => GameAtPly(g, p) \cap GameAtPly(g, q) = {}

GeneratorOrder(g) ==
    [g EXCEPT !.moves = [n \in DOMAIN g.moves |->
                            IF g.over[n] # "no" THEN <<>> ELSE Skeletons[g.sk][n]],
              !.rev = [n \in DOMAIN g.rev |-> FALSE]]

RECURSIVE WinIn(_, _, _, _)
WinIn(g, b, a, k) ==
    IF g.over[b] = "mate" THEN g.player_to_move[b] # a
    ELSE IF g.over[b] = "draw" \/ k = 0 \/ g.moves[b] = <<>> THEN FALSE
    ELSE IF g.player_to_move[b] = a
         THEN \E i \in DOMAIN g.moves[b] : WinIn(g, g.moves[b][i], a, k - 1)
         ELSE \A i \in DOMAIN g.moves[b] : WinIn(g, g.moves[b][i], a, k - 1)

\* side a can force checkmate from the root in n plies and no sooner
MateInExactly(g, a, n) ==
    WinIn(g, 1, a, n) /\ (n > 0 => ~WinIn(g, 1, a, n - 1))

Ok(depth, nodes) == [ok |-> TRUE, err |-> "", depth |-> depth, nodes |-> nodes]
Err(e) == [ok |-> FALSE, err |-> e, depth |-> 0, nodes |-> 0]

\* SearchInfo::unify_with: the greater depth, the node counts merged
unify_with(a, b) == Ok(Max(a.depth, b.depth), a.nodes + b.nodes)

\* what search() returns: a worker that finds the limit over times out; the
\* worker on the calling thread (is_main) and a helper count different nodes
search(depth, stopped, is_main) ==
    IF stopped THEN Err("Timeout") ELSE Ok(depth, IF is_main THEN 1 ELSE 2)

DriverInit ==
    /\ \E d \in 1..MaxIterDepth, h \in 0..MaxHelpers :
         drv = [ pc |-> "loop",
                 config |-> [depth |-> d, n_helpers |-> h],
                 depth |-> 1,
                 handles |-> <<>>,
                 next |-> 1,
                 sub_result |-> Err("Timeout"),
                 main_result |-> Err("Timeout"),
                 best_result |-> Err("Timeout"),
                 stopped |-> FALSE,
                 elapsed |-> 0,
                 messages |-> <<>>,
                 result |-> Err("None"),
                 started |-> {},
                 finished |-> {},
                 okAt |-> {},
                 endedFailed |-> {},
                 joinFailedAt |-> 0 ]
    /\ depthCfg = 1
    /\ game = MakeGame(1, WHITE, 1, [n \in NodesOf(1) |-> [over |-> "no", static |-> 0]],
                       [n \in NodesOf(1) |-> FALSE])
    /\ table = NewEngine.tt
    /\ stats = [nodes |-> 0, transpositions |-> 0]
    /\ score = NoScore
    /\ mv = MvIdle
    /\ snd = SndIdle
    /\ tun = TunIdle
    /\ qs = QsIdle
    /\ app = AppIdle

\* the helper threads one iteration spawns
HelperIds(n_helpers) == 0..n_helpers

\* lines 53-64: the loop head; one iteration spawns its helper threads
Spawn ==
    /\ drv.pc = "loop"
    /\ drv.depth <= drv.config.depth
    /\ drv' = [drv EXCEPT
                 !.pc = "local",
                 !.handles = [i \in 1..Cardinality(HelperIds(drv.config.n_helpers)) |-> "running"],
                 !.next = 1,
                 !.started = @ \cup { [depth |-> drv.depth, id |-> i] :
                                        i \in 1..Cardinality(HelperIds(drv.config.n_helpers)) }]
    /\ UNCHANGED <<game, depthCfg, table, score, stats, mv, snd, tun, qs, app>>

\* a helper thread's search() returns, or the thread panics
HelperFinish(i) ==
    /\ drv.pc \in {"local", "join"}
    /\ i \in DOMAIN drv.handles
    /\ drv.handles[i] = "running"
    /\ \E outcome \in {"returned", "panic"} :
         LET r == search(drv.depth, drv.stopped, FALSE)
             status == IF outcome = "panic" THEN "panic" ELSE IF r.ok THEN "ok" ELSE "err"
         IN drv' = [drv EXCEPT !.handles[i] = status,
                               !.finished = @ \cup { [depth |-> drv.depth, id |-> i] },
                               !.okAt = IF status = "ok" THEN @ \cup {drv.depth} ELSE @]
    /\ UNCHANGED <<game, depthCfg, table, score, stats, mv, snd, tun, qs, app>>

\* the SearchLimit marks itself as over (deadline, node budget or stop)
LimitTrips ==
    /\ drv.pc \in {"loop", "local", "join", "publish"}
    /\ ~drv.stopped
    /\ drv' = [drv EXCEPT !.stopped = TRUE]
    /\ UNCHANGED <<game, depthCfg, table, score, stats, mv, snd, tun, qs, app>>

\* lines 66-74: the search on the calling thread
LocalSearch ==
    /\ drv.pc = "local"
    /\ LET r == search(drv.depth, drv.stopped, TRUE)
       IN drv' = [drv EXCEPT !.pc = "join",
                             !.sub_result = r,
                             !.main_result = r,
                             !.started = @ \cup { [depth |-> drv.depth, id |-> 0] },
                             !.finished = @ \cup { [depth |-> drv.depth, id |-> 0] },
                             !.okAt = IF r.ok THEN @ \cup {drv.depth} ELSE @]
    /\ UNCHANGED <<game, depthCfg, table, score, stats, mv, snd, tun, qs, app>>

\* a join loop that would take a handle's result without waiting for the thread
JoinWithoutWaiting ==
    /\ drv.pc = "join"
    /\ drv.next <= Len(drv.handles)
    /\ LET h == drv.handles[drv.next]
           eval_result == IF h = "ok" THEN search(drv.depth, FALSE, FALSE) ELSE Err("Timeout")
       IN IF h = "panic"
          THEN drv' = [drv EXCEPT !.pc = "done", !.result = Err("Join"),
                                  !.joinFailedAt = drv.depth]
          ELSE drv' = [drv EXCEPT
                         !.next = @ + 1,
                         !.sub_result =
                             IF ~drv.sub_result.ok /\ eval_result.ok THEN eval_result
                             ELSE drv.sub_result]
    /\ UNCHANGED <<game, depthCfg, table, score, stats, mv, snd, tun, qs, app>>

\* lines 76-89: one turn of the join loop; join blocks until the thread
\* ended.  The match is on the tuple (sub_result, eval_result), a copy of the
\* two results: the arm (Ok, Ok) unifies into that copy and leaves
\* sub_result as it was
Join ==
    /\ drv.pc = "join"
    /\ drv.next <= Len(drv.handles)
    /\ drv.handles[drv.next] # "running"
    /\ LET h == drv.handles[drv.next]
           eval_result == IF h = "ok" THEN search(drv.depth, FALSE, FALSE) ELSE Err("Timeout")
       IN IF h = "panic"
          THEN drv' = [drv EXCEPT !.pc = "done", !.result = Err("Join"),
                                  !.joinFailedAt = drv.depth]
          ELSE drv' = [drv EXCEPT
                         !.next = @ + 1,
                         !.sub_result =
                             IF ~drv.sub_result.ok /\ eval_result.ok THEN eval_result
                             ELSE drv.sub_result]
    /\ UNCHANGED <<game, depthCfg, table, score, stats, mv, snd, tun, qs, app>>

\* lines 91-116: the iteration's result is recorded and the GUI informed
Publish ==
    /\ drv.pc = "join"
    /\ drv.next > Len(drv.handles)
    /\ IF drv.sub_result.ok
       THEN \E ms \in drv.elapsed..MaxMillis :
              IF ms = 0
              THEN \* num_nodes_evaluated * 1000 / 0: the division panics
                   drv' = [drv EXCEPT !.pc = "panicked",
                                      !.best_result = unify_with(drv.sub_result, drv.sub_result)]
              ELSE drv' = [drv EXCEPT
                             !.pc = "loop",
                             !.depth = @ + 1,
                             !.elapsed = ms,
                             !.best_result = unify_with(drv.sub_result, drv.sub_result),
                             !.messages = Append(@, drv.depth)]
       ELSE drv' = [drv EXCEPT !.pc = "loop", !.depth = @ + 1,
                               !.endedFailed = @ \cup {drv.depth}]
    /\ UNCHANGED <<game, depthCfg, table, score, stats, mv, snd, tun, qs, app>>

\* lines 119-123: the loop is over, the best result is returned
Return ==
    /\ drv.pc = "loop"
    /\ drv.depth > drv.config.depth
    /\ drv' = [drv EXCEPT !.pc = "done", !.result = drv.best_result]
    /\ UNCHANGED <<game, depthCfg, table, score, stats, mv, snd, tun, qs, app>>

DriverNext ==
    \/ Spawn
    \/ \E i \in 1..(MaxHelpers + 1) : HelperFinish(i)
    \/ LimitTrips
    \/ LocalSearch
    \/ Join
    \/ Publish
    \/ Return

SpecDriver == DriverInit /\ [][DriverNext]_vars

(***************************************************************************)
(* Move: a packed unsigned 16-bit value.                                   *)
(***************************************************************************)
RECURSIVE BitOr(_, _)
BitOr(a, b) ==
    IF a = 0 THEN b
    ELSE IF b = 0 THEN a
    ELSE (IF a % 2 = 1 \/ b % 2 = 1 THEN 1 ELSE 0) + 2 * BitOr(a \div 2, b \div 2)

RECURSIVE BitAnd(_, _)
BitAnd(a, b) ==
    IF a = 0 \/ b = 0 THEN 0
    ELSE (IF a % 2 = 1 /\ b % 2 = 1 THEN 1 ELSE 0) + 2 * BitAnd(a \div 2, b \div 2)

\* u16 arithmetic: a shift drops the bits past the sixteenth
U16 == 65536
Shl(x, k) == (x * (2 ^ k)) % U16
Shr(x, k) == x \div (2 ^ k)

FLAG_MASK == 49152
PROMOTE_FLAG == 16384
CASTLE_FLAG == 32768
EN_PASSANT_FLAG == 49152

\* Piece as u16, and Option<Piece>
Knight == 0
Bishop == 1
Rook == 2
Queen == 3
Pawn == 4
King == 5
None == [some |-> FALSE, p |-> 0]
Some(p) == [some |-> TRUE, p |-> p]

MoveOk(bits) == [ok |-> TRUE, panic |-> FALSE, bits |-> bits]
MoveErr == [ok |-> FALSE, panic |-> FALSE, bits |-> 0]
MovePanic == [ok |-> FALSE, panic |-> TRUE, bits |-> 0]

\* Move::new
new(from_square, to_square, promote_type, castle, en_passant) ==
    LET bits0 == from_square
        bits1 == BitOr(bits0, Shl(to_square, 6))
        bits2 == IF promote_type.some
                 THEN BitOr(bits1, BitOr(Shl(promote_type.p, 12), PROMOTE_FLAG))
                 ELSE bits1
    IN IF castle /\ en_passant THEN MovePanic
       ELSE MoveOk(BitOr(bits2, IF en_passant THEN EN_PASSANT_FLAG
                                ELSE IF castle THEN CASTLE_FLAG ELSE 0))

to_square(bits) == BitAnd(Shr(bits, 6), 63)
from_square(bits) == BitAnd(bits, 63)
is_promotion(bits) == BitAnd(bits, FLAG_MASK) = PROMOTE_FLAG
is_castle(bits) == BitAnd(bits, FLAG_MASK) = CASTLE_FLAG
is_en_passant(bits) == BitAnd(bits, FLAG_MASK) = EN_PASSANT_FLAG
promote_type(bits) == IF is_promotion(bits) THEN Some(BitAnd(Shr(bits, 12), 3)) ELSE None
value(bits) == bits

\* Square::from_algebraic: a file letter and a rank digit, rank * 8 + file
Files == <<"a", "b", "c", "d", "e", "f", "g", "h">>
Ranks == <<"1", "2", "3", "4", "5", "6", "7", "8">>
from_algebraic(t) ==
    IF Len(t) = 2 /\ (\E f \in DOMAIN Files : Files[f] = t[1])
                  /\ (\E r \in DOMAIN Ranks : Ranks[r] = t[2])
    THEN [ok |-> TRUE,
          sq |-> 8 * ((CHOOSE r \in DOMAIN Ranks : Ranks[r] = t[2]) - 1)
                 + (CHOOSE f \in DOMAIN Files : Files[f] = t[1]) - 1]
    ELSE [ok |-> FALSE, sq |-> 0]

Abs(x) == IF x < 0 THEN 0 - x ELSE x
chebyshev_to(a, b) == Max(Abs((a % 8) - (b % 8)), Abs((a \div 8) - (b \div 8)))

\* char::to_ascii_uppercase on the letters of the texts below
LowerCase == <<"n", "b", "r", "q", "p", "k", "x">>
UpperCase == <<"N", "B", "R", "Q", "P", "K", "X">>
to_ascii_uppercase(c) ==
    IF \E i \in DOMAIN LowerCase : LowerCase[i] = c
    THEN UpperCase[CHOOSE i \in DOMAIN LowerCase : LowerCase[i] = c]
    ELSE c

\* Piece::from_code: the piece a code letter names
PieceCodes == <<"N", "B", "R", "Q", "P", "K">>
from_code(c) ==
    IF \E i \in DOMAIN PieceCodes : PieceCodes[i] = c
    THEN Some((CHOOSE i \in DOMAIN PieceCodes : PieceCodes[i] = c) - 1)
    ELSE None

\* Move::from_uci
from_uci(s, board) ==
    IF ~(Len(s) = 4 \/ Len(s) = 5) THEN MoveErr
    ELSE LET from_sq == from_algebraic(SubSeq(s, 1, 2))
             to_sq == from_algebraic(SubSeq(s, 3, 4))
             pt == IF Len(s) = 5 THEN from_code(to_ascii_uppercase(s[5])) ELSE None
         IN IF ~from_sq.ok THEN MoveErr
            ELSE IF ~to_sq.ok THEN MoveErr
            ELSE IF Len(s) = 5 /\ pt = None THEN MoveErr
            ELSE LET castle == from_sq.sq \in board.kings
                                  /\ chebyshev_to(from_sq.sq, to_sq.sq) > 1
                     en_passant == from_sq.sq \in board.pawns
                                      /\ board.en_passant_square = {to_sq.sq}
                 IN new(from_sq.sq, to_sq.sq, pt, castle, en_passant)

\* Display for Square: the file letter and the rank digit of the square
to_algebraic(sq) == <<Files[(sq % 8) + 1], Ranks[(sq \div 8) + 1]>>

\* Piece::code: the code letter of a piece
code(p) == PieceCodes[p + 1]

\* str::to_lowercase on a code letter
to_lowercase(c) ==
    IF \E i \in DOMAIN UpperCase : UpperCase[i] = c
    THEN LowerCase[CHOOSE i \in DOMAIN UpperCase : UpperCase[i] = c]
    ELSE c

to_uciUpperCase(bits) ==
    IF promote_type(bits) = None
    THEN to_algebraic(from_square(bits)) \o to_algebraic(to_square(bits))
    ELSE to_algebraic(from_square(bits)) \o to_algebraic(to_square(bits))
            \o <<code(promote_type(bits).p)>>

\* Move::to_uci
to_uci(bits) ==
    IF promote_type(bits) = None
    THEN to_algebraic(from_square(bits)) \o to_algebraic(to_square(bits))
    ELSE to_algebraic(from_square(bits)) \o to_algebraic(to_square(bits))
            \o <<to_lowercase(code(promote_type(bits).p))>>

(***************************************************************************)
(* The Move part as a state machine: one call of Move::from_uci or of      *)
(* Move::new on inputs drawn from the sets below.                          *)
(***************************************************************************)
E1 == 4
C1 == 2
G1 == 6
E8 == 60
G8 == 62
B7 == 49
E5 == 36
D6 == 43

\* Board: the squares of the kings and of the pawns, the en-passant target
\* and the castling rights (K, Q: White's; k, q: Black's)
Boards ==
    { [kings |-> k, pawns |-> p, en_passant_square |-> ep, castle_rights |-> cr] :
        k \in { {E1, E8}, {G1, G8} },
        p \in { {}, {B7, E5} },
        ep \in { {}, {D6} },
        cr \in { {}, {"Q"}, {"K", "Q", "k", "q"} } }

FromTexts == { <<"e", "1">>, <<"b", "7">>, <<"e", "5">>, <<"e", "2">>, <<"i", "1">>, <<"e", "9">> }
ToTexts == { <<"c", "1">>, <<"e", "2">>, <<"b", "8">>, <<"d", "6">>, <<"e", "4">>, <<"h", "0">> }
Suffixes == { <<>>, <<"q">>, <<"Q">>, <<"n">>, <<"B">>, <<"r">>, <<"k">>, <<"K">>, <<"p">>,
              <<"x">>, <<"1">>, <<"q", "q">> }

\* the texts handed to from_uci: a from-part, a to-part and a suffix, and
\* every prefix of such a text
Texts ==
    UNION { { SubSeq(f \o t \o x, 1, n) : n \in 0..Len(f \o t \o x) } :
            f \in FromTexts, t \in ToTexts, x \in Suffixes }

NewSquares == {0, C1, E1, 12, 28, B7, 57, 63}
NewArgs ==
    { [from_square |-> f, to_square |-> t, promote_type |-> pr, castle |-> c, en_passant |-> e] :
        f \in NewSquares, t \in NewSquares,
        pr \in {None, Some(Knight), Some(Bishop), Some(Rook), Some(Queen)},
        c \in BOOLEAN, e \in BOOLEAN }

NoArgs == [from_square |-> 0, to_square |-> 0, promote_type |-> None,
           castle |-> FALSE, en_passant |-> FALSE]
NoBoard == [kings |-> {}, pawns |-> {}, en_passant_square |-> {}, castle_rights |-> {}]

MoveInit ==
    /\ \/ \E s \in Texts, b \in Boards :
            mv = [pc |-> "ready", op |-> "from_uci", text |-> s, board |-> b,
                  args |-> NoArgs, result |-> MoveErr, out |-> <<>>]
       \/ \E a \in NewArgs :
            mv = [pc |-> "ready", op |-> "new", text |-> <<>>, board |-> NoBoard,
                  args |-> a, result |-> MoveErr, out |-> <<>>]
    /\ depthCfg = 1
    /\ game = MakeGame(1, WHITE, 1, [n \in NodesOf(1) |-> [over |-> "no", static |-> 0]],
                       [n \in NodesOf(1) |-> FALSE])
    /\ table = NewEngine.tt
    /\ stats = [nodes |-> 0, transpositions |-> 0]
    /\ score = NoScore
    /\ drv = DrvIdle
    /\ snd = SndIdle
    /\ tun = TunIdle
    /\ qs = QsIdle
    /\ app = AppIdle

\* a call of Move::from_uci
FromUci ==
    /\ mv.pc = "ready"
    /\ mv.op = "from_uci"
    /\ mv' = [mv EXCEPT !.pc = "done", !.result = from_uci(mv.text, mv.board)]
    /\ UNCHANGED <<game, depthCfg, table, score, stats, drv, snd, tun, qs, app>>

\* a call of Move::new
New ==
    /\ mv.pc = "ready"
    /\ mv.op = "new"
    /\ mv' = [mv EXCEPT !.pc = "done",
                        !.result = new(mv.args.from_square, mv.args.to_square,
                                       mv.args.promote_type, mv.args.castle,
                                       mv.args.en_passant)]
    /\ UNCHANGED <<game, depthCfg, table, score, stats, drv, snd, tun, qs, app>>

\* a call of Move::to_uci on the move the call before returned
ToUci ==
    /\ mv.pc = "done"
    /\ mv.result.ok
    /\ mv' = [mv EXCEPT !.pc = "printed", !.out = to_uci(mv.result.bits)]
    /\ UNCHANGED <<game, depthCfg, table, score, stats, drv, snd, tun, qs, app>>

MoveNext == FromUci \/ New \/ ToUci

SpecMove == MoveInit /\ [][MoveNext]_vars

(***************************************************************************)
(* build_message: the text of a message from the engine to the GUI.  A     *)
(* text is the sequence of the pieces the code appends, a formatted value  *)
(* being a piece of its own; a move's text is a sequence of characters.    *)
(***************************************************************************)
NoneStr == [some |-> FALSE, v |-> ""]
SomeStr(x) == [some |-> TRUE, v |-> x]

\* Display for Piece: the piece's code letter
PieceDisplay(p) == code(p)

\* impl Display for Move
Display(bits) ==
    (IF promote_type(bits) = None
     THEN to_algebraic(from_square(bits)) \o <<" -> ">> \o to_algebraic(to_square(bits))
     ELSE to_algebraic(from_square(bits)) \o <<" -> ">> \o to_algebraic(to_square(bits))
             \o <<" =">> \o <<PieceDisplay(promote_type(bits).p)>>)
    \o (IF is_en_passant(bits) THEN <<" [e.p.]">> ELSE <<>>)
    \o (IF is_castle(bits) THEN <<" [castle]">> ELSE <<>>)

\* Eval::moves_to_mate: the full moves to the mate, if the score is a mate
moves_to_mate(e) ==
    IF e > MATE_CUTOFF THEN [some |-> TRUE, v |-> (MATE_0_VAL - e + 1) \div 2]
    ELSE IF e < 0 - MATE_CUTOFF THEN [some |-> TRUE, v |-> (MATE_0_VAL + e + 1) \div 2]
    ELSE [some |-> FALSE, v |-> 0]
DRAW == 0
centipawn_val(e) == e

\* the text of a sequence of moves, each followed by a space
RECURSIVE PvText(_)
PvText(pv) ==
    IF pv = <<>> THEN <<>>
    ELSE to_uci(pv[1]) \o <<" ">> \o PvText(Tail(pv))

\* one arm of the match of build_info: the text of one field
InfoText(info) ==
    CASE info.kind = "Depth" -> <<"depth ", ToString(info.v), " ">>
      [] info.kind = "SelDepth" -> <<"seldepth ", ToString(info.v), " ">>
      [] info.kind = "Time" -> <<"time ", ToString(info.v), " ">>
      [] info.kind = "Nodes" -> <<"nodes ", ToString(info.v), " ">>
      [] info.kind = "Pv" -> <<"pv ">> \o PvText(info.pv)
      [] info.kind = "MultiPv" -> <<"multipv ", ToString(info.v), " ">>
      [] info.kind = "Score" ->
            <<"score ">>
            \o (IF moves_to_mate(info.eval).some
                THEN (IF info.eval > DRAW
                      THEN <<"mate ", ToString(moves_to_mate(info.eval).v), " ">>
                      ELSE <<"mate -", ToString(moves_to_mate(info.eval).v), " ">>)
                ELSE <<"cp ", ToString(centipawn_val(info.eval)), " ">>)
            \o (IF info.is_lower_bound /\ ~info.is_upper_bound THEN <<"lowerbound ">>
                ELSE IF info.is_upper_bound THEN <<"upperbound ">>
                ELSE <<>>)
      [] info.kind = "CurrMove" -> <<"currmove ">> \o to_uci(info.m) \o <<" ">>
      [] info.kind = "CurrMoveNumber" -> <<"currmovenumber ", ToString(info.v), " ">>
      [] info.kind = "HashFull" -> <<"hashfull ", ToString(info.v), " ">>
      [] info.kind = "NodeSpeed" -> <<"nps ", ToString(info.v), " ">>
      [] info.kind = "String" -> <<"string ", info.s>>

\* the loop of build_info from the i-th field on
RECURSIVE BuildInfoFrom(_, _, _, _)
BuildInfoFrom(infos, i, result, new_line) ==
    IF i > Len(infos) THEN result \o <<"\n">>
    ELSE BuildInfoFrom(infos, i + 1,
                       (IF new_line THEN result \o <<"\ninfo ">> ELSE result)
                          \o InfoText(infos[i]),
                       infos[i].kind = "String")

build_info(infos) == BuildInfoFrom(infos, 1, <<"info ">>, FALSE)

\* the text of the variants of a combo option
RECURSIVE VarsText(_)
VarsText(vs) ==
    IF vs = <<>> THEN <<>>
    ELSE <<"var ", vs[1], " ">> \o VarsText(Tail(vs))

build_option(name, opt) ==
    <<"option name ", name, " ">>
    \o (CASE opt.kind = "Spin" ->
               <<"type spin default ", ToString(opt.default), " min ", ToString(opt.min),
                 " max ", ToString(opt.max)>>
          [] opt.kind = "String" ->
               <<"type string ">>
               \o (IF opt.default.some THEN <<"default ", opt.default.v, " ">> ELSE <<>>)
          [] opt.kind = "Check" ->
               <<"type check ">>
               \o (IF opt.default.some THEN <<"default ", opt.default.v, " ">> ELSE <<>>)
          [] opt.kind = "Combo" ->
               <<"type combo ">>
               \o (IF opt.default.some THEN <<"default ", opt.default.v, " ">> ELSE <<>>)
               \o VarsText(opt.vars)
          [] opt.kind = "Button" -> <<"type button ">>)
    \o <<"\n">>

\* build_message
build_message(message) ==
    CASE message.kind = "Id" ->
            (IF message.name.some THEN <<"id name ", message.name.v, "\n">> ELSE <<>>)
            \o (IF message.author.some THEN <<"id author ", message.author.v, "\n">> ELSE <<>>)
      [] message.kind = "UciOk" -> <<"uciok\n">>
      [] message.kind = "ReadyOk" -> <<"readyok\n">>
      [] message.kind = "Option" -> build_option(message.name, message.opt)
      [] message.kind = "BestMove" ->
            <<"bestmove ">> \o to_uci(message.m) \o <<" ">>
            \o (IF message.ponder.some THEN <<"ponder ">> \o Display(message.ponder.v) ELSE <<>>)
            \o <<"\n">>
      [] message.kind = "Info" -> build_info(message.infos)

(***************************************************************************)
(* build_message as a state machine: one call on a message drawn from the  *)
(* sets below.                                                             *)
(***************************************************************************)
\* the longest list of fields an Info message carries
MaxInfos == 3

E2 == 12
E4 == 28
E7 == 52
B8 == 57

SendMoves ==
    { new(E2, E4, None, FALSE, FALSE).bits,
      new(E7, E5, None, FALSE, FALSE).bits,
      new(B7, B8, Some(Queen), FALSE, FALSE).bits,
      new(E1, G1, None, TRUE, FALSE).bits }

InfoFields ==
    { [kind |-> k, v |-> 2] :
        k \in {"Depth", "SelDepth", "Time", "Nodes", "MultiPv", "CurrMoveNumber",
               "HashFull", "NodeSpeed"} }
    \cup { [kind |-> "Pv", pv |-> pv] :
             pv \in { <<>>, <<new(E2, E4, None, FALSE, FALSE).bits,
                              new(E7, E5, None, FALSE, FALSE).bits>> } }
    \cup { [kind |-> "Score", eval |-> e, is_lower_bound |-> lb, is_upper_bound |-> ub] :
             e \in {1, mate_in(1)}, lb \in BOOLEAN, ub \in BOOLEAN }
    \cup { [kind |-> "CurrMove", m |-> new(B7, B8, Some(Queen), FALSE, FALSE).bits] }
    \cup { [kind |-> "String", s |-> "hello"] }

RECURSIVE InfoLists(_)
InfoLists(k) ==
    IF k = 0 THEN { <<>> }
    ELSE InfoLists(k - 1)
         \cup { Append(l, f) : l \in { x \in InfoLists(k - 1) : Len(x) = k - 1 }, f \in InfoFields }

OptionTypes ==
    { [kind |-> "Spin", default |-> 2, min |-> 0, max |-> 4],
      [kind |-> "String", default |-> NoneStr],
      [kind |-> "String", default |-> SomeStr("c")],
      [kind |-> "Check", default |-> NoneStr],
      [kind |-> "Check", default |-> SomeStr("true")],
      [kind |-> "Combo", default |-> NoneStr, vars |-> <<>>],
      [kind |-> "Combo", default |-> SomeStr("Normal"), vars |-> <<"Solid", "Normal">>],
      [kind |-> "Button"] }

Messages ==
    { [kind |-> "Id", name |-> n, author |-> a] :
        n \in {NoneStr, SomeStr("Fiddler")}, a \in {NoneStr, SomeStr("Clayton Ramsey")} }
    \cup { [kind |-> "UciOk"], [kind |-> "ReadyOk"] }
    \cup { [kind |-> "Option", name |-> "Style", opt |-> o] : o \in OptionTypes }
    \cup { [kind |-> "BestMove", m |-> m, ponder |-> po] :
             m \in SendMoves,
             po \in { [some |-> FALSE, v |-> 0] } \cup { [some |-> TRUE, v |-> x] : x \in SendMoves } }
    \cup { [kind |-> "Info", infos |-> l] : l \in InfoLists(MaxInfos) }

SendInit ==
    /\ \E message \in Messages : snd = [pc |-> "ready", message |-> message, out |-> <<>>]
    /\ depthCfg = 1
    /\ game = MakeGame(1, WHITE, 1, [n \in NodesOf(1) |-> [over |-> "no", static |-> 0]],
                       [n \in NodesOf(1) |-> FALSE])
    /\ table = NewEngine.tt
    /\ stats = [nodes |-> 0, transpositions |-> 0]
    /\ score = NoScore
    /\ drv = DrvIdle
    /\ mv = MvIdle
    /\ tun = TunIdle
    /\ qs = QsIdle
    /\ app = AppIdle

\* a call of build_message
BuildMessage ==
    /\ snd.pc = "ready"
    /\ snd' = [snd EXCEPT !.pc = "done", !.out = build_message(snd.message)]
    /\ UNCHANGED <<game, depthCfg, table, score, stats, drv, mv, tun, qs, app>>

SendNext == BuildMessage

SpecSend == SendInit /\ [][SendNext]_vars

(***************************************************************************)
(* The tuner: train_step and extract.  Floating-point values are modelled  *)
(* by integers: the phase is a number of PhaseOne-ths, a feature value the *)
(* product of the phase (or of its complement) and a net count; a sample's *)
(* squared error and gradient are given integers.                          *)
(***************************************************************************)
\* the dataset of train_step has up to MaxSamples samples
MaxSamples == 4
\* train_step is called with 1..MaxThreads worker threads
MaxThreads == 3
\* a board of extract holds the two kings and up to MaxPieces other pieces
MaxPieces == 2
\* phase_of returns 0, 1/PhaseOne, .., 1
PhaseOne == 2

\* the sum of f[i] over the indices i of the set S
RECURSIVE SumOver(_, _)
SumOver(f, S) ==
    IF S = {} THEN 0
    ELSE LET i == CHOOSE x \in S : TRUE IN f[i] + SumOver(f, S \ {i})

\* train_thread on the samples inputs[start..][..chunk_size] (indices from 0)
train_thread(inputs, start, chunk_size) ==
    LET chunk == { i \in 0..(Len(inputs) - 1) : start <= i /\ i < start + chunk_size }
    IN [chunk |-> chunk,
        grad |-> SumOver([i \in chunk |-> inputs[i + 1].grad], chunk),
        se |-> SumOver([i \in chunk |-> inputs[i + 1].se], chunk)]

\* train_step: the chunks handed to the threads, the sum of the squared
\* errors and the sum of the gradients applied to the weights
train_step(inputs, nthreads) ==
    LET chunk_size == Len(inputs) \div nthreads
        grads == [thread_id \in 0..(nthreads - 1) |->
                    train_thread(inputs, chunk_size * thread_id, chunk_size)]
    IN [chunks |-> [thread_id \in 0..(nthreads - 1) |-> grads[thread_id].chunk],
        sum_se |-> SumOver([t \in 0..(nthreads - 1) |-> grads[t].se], 0..(nthreads - 1)),
        grad |-> SumOver([t \in 0..(nthreads - 1) |-> grads[t].grad], 0..(nthreads - 1))]

\* Piece::NON_KING and Piece::ALL, in the order of the piece numbers
NON_KING == <<Knight, Bishop, Rook, Queen, Pawn>>
ALL == <<Knight, Bishop, Rook, Queen, Pawn, King>>
MAX_MOBILITY == 28

\* the squares of board b holding a piece of type pt, of colour c
PieceSquares(b, pt) == { q.sq : q \in { x \in b.pieces : x.pt = pt } }
ColorSquares(b, c) == { q.sq : q \in { x \in b.pieces : x.color = c } }

\* the elements of a set of numbers in ascending order (a bitboard's iteration)
RECURSIVE Ascending(_)
Ascending(S) ==
    IF S = {} THEN <<>>
    ELSE LET lo == CHOOSE x \in S : \A y \in S : x <= y
         IN <<lo>> \o Ascending(S \ {lo})

\* Square::opposite: the square mirrored top to bottom
opposite(sq) == 8 * (7 - (sq \div 8)) + (sq % 8)

\* the number of squares a piece of kind pt attacks from sq, as the
\* lookup tables (KNIGHT_MOVES, MAGIC, PAWN_ATTACKS, KING_MOVES) give it
AttackCount(pt, sq) == 1 + ((pt + sq) % 3)

\* the material part of extract, from the i-th piece type on
RECURSIVE MaterialFeatures(_, _)
MaterialFeatures(b, i) ==
    IF i > Len(NON_KING) THEN <<>>
    ELSE LET pt == NON_KING[i]
             n_white == Cardinality(PieceSquares(b, pt) \cap ColorSquares(b, WHITE))
             n_black == Cardinality(PieceSquares(b, pt) \cap ColorSquares(b, BLACK))
             net == n_white - n_black
             idx == 2 * pt
         IN (IF net # 0
             THEN << <<idx, b.phase * net>>, <<idx, (PhaseOne - b.phase) * net>> >>
             ELSE <<>>)
            \o MaterialFeatures(b, i + 1)

\* the piece-square part of extract for the squares sqs of piece type pt
RECURSIVE PstSquares(_, _, _)
PstSquares(b, pt, sqs) ==
    IF sqs = <<>> THEN <<>>
    ELSE LET sq == sqs[1]
             w == sq \in ColorSquares(b, WHITE)
             k == opposite(sq) \in ColorSquares(b, BLACK)
             increment == IF w /\ ~k THEN 1 ELSE 0 - 1
             idx == 10 + 128 * pt + 2 * sq
         IN (IF (w /\ ~k) \/ (~w /\ k)
             THEN << <<idx, b.phase * increment>>, <<idx + 1, (PhaseOne - b.phase) * increment>> >>
             ELSE <<>>)
            \o PstSquares(b, pt, Tail(sqs))

RECURSIVE PstFeatures(_, _)
PstFeatures(b, i) ==
    IF i > Len(ALL) THEN <<>>
    ELSE PstSquares(b, ALL[i], Ascending(PieceSquares(b, ALL[i]))) \o PstFeatures(b, i + 1)

\* count[pt][idx] of extract_mobility after all its counting loops
MobilityCount(b) ==
    LET white == ColorSquares(b, WHITE)
        black == ColorSquares(b, BLACK)
        Plus(kind, sqs, n) == Cardinality({ sq \in sqs : AttackCount(kind, sq) = n })
    IN [pt \in 0..5 |-> [n \in 0..(MAX_MOBILITY - 1) |->
          CASE pt = Knight -> Plus(Knight, PieceSquares(b, Knight) \cap white, n)
                              - Plus(Knight, PieceSquares(b, Knight) \cap black, n)
            [] pt = Bishop -> Plus(Bishop, PieceSquares(b, Bishop) \cap white, n)
                              - Plus(Bishop, PieceSquares(b, Bishop) \cap black, n)
            [] pt = Rook -> Plus(Rook, PieceSquares(b, Rook) \cap white, n)
                            - Plus(Rook, PieceSquares(b, Rook) \cap black, n)
            [] pt = Queen -> Plus(Queen, PieceSquares(b, Queen) \cap white, n)
                             - Plus(Queen, PieceSquares(b, Rook) \cap black, n)
            [] pt = Pawn -> Plus(Pawn, PieceSquares(b, Pawn) \cap white, n)
                            - Plus(Pawn, PieceSquares(b, Pawn) \cap black, n)
            [] pt = King -> Plus(King, {b.king_sqs[1]}, n) - Plus(King, {b.king_sqs[2]}, n)]]

\* the loop of extract_mobility that writes the features: ks lists the
\* pairs (pt, idx) with a nonzero count as MAX_MOBILITY * pt + idx, in the
\* order of the loops
RECURSIVE MobilityFeatures(_, _, _, _)
MobilityFeatures(count, offset, phase, ks) ==
    IF ks = <<>> THEN <<>>
    ELSE LET pt == ks[1] \div MAX_MOBILITY
             idx == ks[1] % MAX_MOBILITY
             num_mobile == count[pt][idx]
             feature_idx == offset + 2 * (MAX_MOBILITY * pt + idx)
         IN << <<feature_idx, phase * num_mobile>>,
               <<feature_idx + 1, (PhaseOne - phase) * num_mobile>> >>
            \o MobilityFeatures(count, offset, phase, Tail(ks))

extract_mobility(b, offset, phase) ==
    LET count == MobilityCount(b)
    IN MobilityFeatures(count, offset, phase,
           Ascending({ k \in 0..(6 * MAX_MOBILITY - 1) :
                         count[k \div MAX_MOBILITY][k % MAX_MOBILITY] # 0 }))

\* extract: the sparse feature vector, in the order the code pushes it
extract(b) ==
    MaterialFeatures(b, 1)
    \o PstFeatures(b, 1)
    \o extract_mobility(b, 778, b.phase)
    \o (IF b.doubled # 0
        THEN << <<1114, b.doubled * b.phase>>, <<1115, b.doubled * (PhaseOne - b.phase)>> >>
        ELSE <<>>)
    \o (IF b.open_rooks # 0
        THEN << <<1116, b.open_rooks * b.phase>>, <<1117, b.open_rooks * (PhaseOne - b.phase)>> >>
        ELSE <<>>)

(***************************************************************************)
(* The tuner as a state machine: one call of train_step or of extract.     *)
(***************************************************************************)
\* the datasets: a sample is its squared error and its gradient under the
\* weights of the step
RECURSIVE Datasets(_)
Datasets(n) ==
    IF n = 0 THEN { <<>> }
    ELSE Datasets(n - 1)
         \cup { Append(l, [se |-> e, grad |-> 1]) :
                   l \in { x \in Datasets(n - 1) : Len(x) = n - 1 }, e \in {1, 2} }

A2 == 8
A7 == 48
H4 == 31
TunerSquares == {A2, A7, H4}

\* the pieces a board may hold besides the kings
ExtraPieces ==
    { [pt |-> pt, color |-> c, sq |-> sq] :
        pt \in {Knight, Bishop, Rook, Queen, Pawn}, c \in {WHITE, BLACK}, sq \in TunerSquares }

RECURSIVE PieceSets(_)
PieceSets(n) ==
    IF n = 0 THEN { {} }
    ELSE PieceSets(n - 1)
         \cup { S \cup {q} : S \in { x \in PieceSets(n - 1) : Cardinality(x) = n - 1 },
                              q \in { y \in ExtraPieces : TRUE } }

\* no two pieces of a board stand on one square
TunerBoards ==
    { [pieces |-> S \cup { [pt |-> King, color |-> WHITE, sq |-> E1],
                           [pt |-> King, color |-> BLACK, sq |-> E8] },
       king_sqs |-> <<E1, E8>>, phase |-> ph, doubled |-> d, open_rooks |-> o] :
        S \in { x \in PieceSets(MaxPieces) :
                  \A q \in x, r \in x : q # r => q.sq # r.sq },
        ph \in 0..PhaseOne, d \in {0, 1}, o \in {0, 0 - 1} }

NoTunerBoard == [pieces |-> {}, king_sqs |-> <<E1, E8>>, phase |-> 0, doubled |-> 0, open_rooks |-> 0]

TunerInit ==
    /\ \/ \E inputs \in Datasets(MaxSamples), nthreads \in 1..MaxThreads :
            tun = [pc |-> "ready", op |-> "train_step", inputs |-> inputs, nthreads |-> nthreads,
                   board |-> NoTunerBoard, trained |-> train_step(<<>>, 1), features |-> <<>>]
       \/ \E b \in TunerBoards :
            tun = [pc |-> "ready", op |-> "extract", inputs |-> <<>>, nthreads |-> 1,
                   board |-> b, trained |-> train_step(<<>>, 1), features |-> <<>>]
    /\ depthCfg = 1
    /\ game = MakeGame(1, WHITE, 1, [n \in NodesOf(1) |-> [over |-> "no", static |-> 0]],
                       [n \in NodesOf(1) |-> FALSE])
    /\ table = NewEngine.tt
    /\ stats = [nodes |-> 0, transpositions |-> 0]
    /\ score = NoScore
    /\ drv = DrvIdle
    /\ mv = MvIdle
    /\ snd = SndIdle
    /\ qs = QsIdle
    /\ app = AppIdle

\* a call of train_step
TrainStep ==
    /\ tun.pc = "ready"
    /\ tun.op = "train_step"
    /\ tun' = [tun EXCEPT !.pc = "done", !.trained = train_step(tun.inputs, tun.nthreads)]
    /\ UNCHANGED <<game, depthCfg, table, score, stats, drv, mv, snd, qs, app>>

\* a call of extract
Extract ==
    /\ tun.pc = "ready"
    /\ tun.op = "extract"
    /\ tun' = [tun EXCEPT !.pc = "done", !.features = extract(tun.board)]
    /\ UNCHANGED <<game, depthCfg, table, score, stats, drv, mv, snd, qs, app>>

TunerNext == TrainStep \/ Extract

SpecTuner == TunerInit /\ [][TunerNext]_vars

(***************************************************************************)
(* The quiescent search of search.rs (Minimax::quiesce).  The position is  *)
(* the root of a small graph: 1 has the moves to 2 and 3, 2 the moves to 4 *)
(* and 5, 3 and 4 one quiet move each; 5 and 6 stand for the positions the *)
(* lines run out into (6 is no check: no series of checks is endless).  q holds what the board tells the     *)
(* search: which moves land on an enemy piece, which positions are checks, *)
(* and the order the candidator's sort leaves the moves in.                *)
(***************************************************************************)
QsMoves == << <<2, 3>>, <<4, 5>>, <<5>>, <<6>>, <<6>>, <<5>> >>
QsNodes == DOMAIN QsMoves
\* the plies from the root to each position
QsPly == <<0, 1, 1, 2, 2, 3>>

\* the window's sides: the full window, or two neighbouring centipawn values
QsWindows == { <<EvalMIN, EvalMAX>>, <<0 - 1, 0>>, <<0, 1>> }

\* enemy_occupancy.contains(m.to_square()): the move to position n captures
IsCapture(q, n) == q.capture[n]

\* mgen.is_square_attacked_by(board, king_square, enemy)
currently_in_check(q, b) == q.in_check[b]

\* moves.sort_by_cached_key(-candidator): the order the sort leaves
SortedMoves(q, b, moves) == IF q.rev[b] THEN Reverse(moves) ELSE moves

\* lines 185-191 with every move of the root kept, check or not
SearchedMovesUnfiltered(q, b, all) ==
    IF currently_in_check(q, b) \/ b = 1 THEN all
    ELSE SelectSeq(all, LAMBDA m : IsCapture(q, m))

\* lines 185-191: all legal moves when the mover is in check, else the captures
SearchedMoves(q, b, all) ==
    IF currently_in_check(q, b) THEN all
    ELSE SelectSeq(all, LAMBDA m : IsCapture(q, m))

\* the Game as the search changes it: hist lists the boards from the position
\* the search was called on to the current one
get_board(hist) == hist[Len(hist)]
make_move(hist, m) == Append(hist, m)
undo(hist) == IF Len(hist) > 1 THEN SubSeq(hist, 1, Len(hist) - 1) ELSE hist

\* a loop body that leaves the move it made on the board
LeaveMove(hist) == hist

\* lines 122 and 211: g.undo().ok()
UndoMove(hist) == undo(hist)

\* lines 170-231; the result is [eval, nodes, depth, quiet, loose, hist]:
\* nodes the calls counted in num_nodes_evaluated, depth the longest line of
\* calls below this one, quiet the most moves that are no captures on one
\* line, loose whether a move that is no capture was made from a position that
\* is no check, hist the Game on return
RECURSIVE quiesce(_, _, _, _, _)
RECURSIVE QuiesceMoves(_, _, _, _, _, _, _, _)
QuiesceMoves(g, q, moves, i, alpha, beta, evaluation, acc) ==
    IF i > Len(moves) THEN [acc EXCEPT !.eval = evaluation]
    ELSE LET b == get_board(acc.hist)
             r == quiesce(g, q, make_move(acc.hist, moves[i]), alpha, beta)
             quiet == IF IsCapture(q, moves[i]) THEN 0 ELSE 1
             n == [ eval |-> evaluation,
                    nodes |-> acc.nodes + r.nodes,
                    depth |-> Max(acc.depth, 1 + r.depth),
                    quiet |-> Max(acc.quiet, quiet + r.quiet),
                    loose |-> \/ acc.loose
                              \/ r.loose
                              \/ (quiet = 1 /\ ~currently_in_check(q, b)),
                    hist |-> UndoMove(r.hist) ]
         IN IF g.player_to_move[b] = WHITE
            THEN LET ev == Max(evaluation, r.eval)
                 IN IF ev >= beta THEN [n EXCEPT !.eval = ev]
                    ELSE QuiesceMoves(g, q, moves, i + 1, Max(alpha, ev), beta, ev, n)
            ELSE LET ev == Min(evaluation, r.eval)
                 IN IF ev <= alpha THEN [n EXCEPT !.eval = ev]
                    ELSE QuiesceMoves(g, q, moves, i + 1, alpha, Min(beta, ev), ev, n)

quiesce(g, q, hist, alpha_in, beta_in) ==
    LET b == get_board(hist)
        player == g.player_to_move[b]
        moves == SearchedMoves(q, b, get_moves(g, b))
        first == [eval |-> 0, nodes |-> 1, depth |-> 0, quiet |-> 0, loose |-> FALSE,
                  hist |-> hist]
    IN IF Len(moves) = 0 THEN [first EXCEPT !.eval = evaluator(g, b)]
       ELSE QuiesceMoves(g, q, SortedMoves(q, b, moves), 1, alpha_in, beta_in,
                         IF player = WHITE THEN EvalMIN ELSE EvalMAX, first)

\* the Game of the quiescent search: position 4 may be a checkmate or a
\* stalemate, the others have moves
QsGame(side, static, over4) ==
    [ sk |-> 0,
      moves |-> [n \in QsNodes |-> IF n = 4 /\ over4 # "no" THEN <<>> ELSE QsMoves[n]],
      player_to_move |-> [n \in QsNodes |->
                            IF QsPly[n] % 2 = 0 THEN side ELSE opposite_color(side)],
      over |-> [n \in QsNodes |-> IF n = 4 THEN over4 ELSE "no"],
      static |-> static,
      rev |-> [n \in QsNodes |-> FALSE] ]

QuiesceInit ==
    /\ \E side \in {WHITE, BLACK}, s1 \in Cp, s2 \in Cp, s3 \in Cp,
          n4 \in { [over |-> "no", static |-> c] : c \in Cp }
                   \cup { [over |-> "mate", static |-> 0], [over |-> "draw", static |-> 0] },
          c2 \in BOOLEAN, c3 \in BOOLEAN, c4 \in BOOLEAN,
          k1 \in BOOLEAN, k2 \in BOOLEAN, k5 \in BOOLEAN :
         /\ game = QsGame(side, <<s1, s2, s3, n4.static, 0, 0>>, n4.over)
         /\ qs = [ pc |-> "ready",
                   capture |-> <<FALSE, c2, c3, c4, FALSE, FALSE>>,
                   in_check |-> <<k1, k2, FALSE, n4.over = "mate", k5, FALSE>>,
                   rev |-> [n \in QsNodes |-> FALSE],
                   alpha |-> EvalMIN,
                   beta |-> EvalMAX,
                   eval |-> 0,
                   nodes |-> 0,
                   depth |-> 0,
                   quiet |-> 0,
                   loose |-> FALSE,
                   hist |-> <<1>> ]
    /\ depthCfg = 1
    /\ table = NewEngine.tt
    /\ stats = [nodes |-> 0, transpositions |-> 0]
    /\ score = NoScore
    /\ drv = DrvIdle
    /\ mv = MvIdle
    /\ snd = SndIdle
    /\ tun = TunIdle
    /\ app = AppIdle

\* a call of quiesce on the root position with some window
Quiesce ==
    /\ qs.pc = "ready"
    /\ \E w \in QsWindows, r1 \in BOOLEAN :
         LET q == [qs EXCEPT !.rev = [n \in QsNodes |-> r1]]
             r == quiesce(game, q, qs.hist, w[1], w[2])
         IN qs' = [q EXCEPT !.pc = "done", !.alpha = w[1], !.beta = w[2],
                            !.eval = r.eval, !.nodes = r.nodes, !.depth = r.depth,
                            !.quiet = r.quiet, !.loose = r.loose, !.hist = r.hist]
    /\ UNCHANGED <<game, depthCfg, table, score, stats, drv, mv, snd, tun, app>>

QuiesceNext == Quiesce

SpecQuiesce == QuiesceInit /\ [][QuiesceNext]_vars

(***************************************************************************)
(* Minimax::evaluate_at_depth of search.rs: the search with the depth      *)
(* cutoff on the transposition table and the quiescent search at the       *)
(* horizon.  e is the engine's mutable state and the Game:                 *)
(* [depth, tt, nodes, transpositions, hist] with stores and probes, the    *)
(* record of the table's writes and of its hits.                           *)
(***************************************************************************)
TRANSPOSITION_DEPTH_CUTOFF == 7

EvalData(depth, lower_bound, upper_bound) ==
    [depth |-> depth, lower_bound |-> lower_bound, upper_bound |-> upper_bound]

\* TTable::store: the entry of the board is replaced
store(tt, b, e) == insert(tt, b, e)

\* a write of the table, as the record keeps it
StoreRecord(b, depth, e, horizon, entry, alpha_in, beta_in, alpha, beta, evaluation) ==
    [ board |-> b, depth |-> depth, below_root |-> e.depth - depth, horizon |-> horizon,
      entry |-> entry, alpha_in |-> alpha_in, beta_in |-> beta_in,
      alpha |-> alpha, beta |-> beta, evaluation |-> evaluation ]

\* a hit of the table, as the record keeps it: returned tells whether
\* evaluate_at_depth returned the entry's bound at once
ProbeRecord(b, depth, entry, alpha_in, beta_in, returned) ==
    [ board |-> b, depth |-> depth, entry |-> entry,
      alpha_in |-> alpha_in, beta_in |-> beta_in, returned |-> returned ]

RECURSIVE search_evaluate_at_depth(_, _, _, _, _, _)
RECURSIVE search_moves(_, _, _, _, _, _, _, _, _, _, _)

\* lines 117-139: the loop over the moves, from the i-th move on
search_moves(g, q, depth, moves, i, evaluation, alpha_changing, beta_changing, alpha, beta, e) ==
    IF i > Len(moves) THEN [eval |-> evaluation, e |-> e]
    ELSE LET player_to_move == g.player_to_move[get_board(e.hist)]
             r == search_evaluate_at_depth(g, q, depth - 1, alpha_changing, beta_changing,
                                           [e EXCEPT !.hist = make_move(@, moves[i])])
             e1 == [r.e EXCEPT !.hist = UndoMove(@)]
         IN IF player_to_move = WHITE
            THEN LET ev == Max(evaluation, r.eval)
                 IN IF ev >= beta THEN [eval |-> ev, e |-> e1]
                    ELSE search_moves(g, q, depth, moves, i + 1, ev, Max(alpha_changing, ev),
                                      beta_changing, alpha, beta, e1)
            ELSE LET ev == Min(evaluation, r.eval)
                 IN IF ev <= alpha THEN [eval |-> ev, e |-> e1]
                    ELSE search_moves(g, q, depth, moves, i + 1, ev, alpha_changing,
                                      Min(beta_changing, ev), alpha, beta, e1)

\* lines 55-165
search_evaluate_at_depth(g, q, depth, alpha_in, beta_in, e0) ==
    LET b == get_board(e0.hist)
        e1 == [e0 EXCEPT !.nodes = @ + 1]
        hit == /\ e1.depth - depth < TRANSPOSITION_DEPTH_CUTOFF
               /\ b \in DOMAIN e1.tt
               /\ e1.tt[b].depth >= depth
        cut == [e1 EXCEPT !.transpositions = @ + 1,
                          !.probes = @ \cup { ProbeRecord(b, depth, e1.tt[b], alpha_in,
                                                           beta_in, TRUE) }]
    IN IF hit /\ e1.tt[b].lower_bound >= beta_in
       THEN [eval |-> e1.tt[b].lower_bound, e |-> cut]
       ELSE IF hit /\ e1.tt[b].upper_bound <= alpha_in
       THEN [eval |-> e1.tt[b].upper_bound, e |-> cut]
       ELSE
       LET alpha == IF hit THEN Max(alpha_in, e1.tt[b].lower_bound) ELSE alpha_in
           beta == IF hit THEN Min(beta_in, e1.tt[b].upper_bound) ELSE beta_in
           e2 == IF hit
                 THEN [e1 EXCEPT !.probes = @ \cup { ProbeRecord(b, depth, e1.tt[b], alpha_in,
                                                                  beta_in, FALSE) }]
                 ELSE e1
       IN IF depth <= 0 \/ is_game_over(g, b)
          THEN LET r == quiesce(g, q, e2.hist, alpha_in, beta_in)
                   entry == EvalData(depth, r.eval, r.eval)
               IN [eval |-> r.eval,
                   e |-> [e2 EXCEPT
                            !.nodes = @ + r.nodes,
                            !.hist = r.hist,
                            !.tt = store(@, b, entry),
                            !.stores = @ \cup { StoreRecord(b, depth, e2, TRUE, entry, alpha_in,
                                                            beta_in, alpha, beta, r.eval) }]]
          ELSE LET player_to_move == g.player_to_move[b]
                   moves == IF depth > 1 THEN SortedMoves(q, b, get_moves(g, b))
                            ELSE get_moves(g, b)
                   r == search_moves(g, q, depth, moves, 1,
                                     IF player_to_move = WHITE THEN EvalMIN ELSE EvalMAX,
                                     alpha, beta, alpha, beta, e2)
                   evaluation == step_back(r.eval)
                   entry == StoredEntry(depth, evaluation, alpha, beta)
               IN [eval |-> evaluation,
                   e |-> IF r.e.depth - depth < TRANSPOSITION_DEPTH_CUTOFF
                         THEN [r.e EXCEPT
                                 !.tt = store(@, b, entry),
                                 !.stores = @ \cup { StoreRecord(b, depth, r.e, FALSE, entry,
                                                                 alpha_in, beta_in, alpha, beta,
                                                                 evaluation) }]
                         ELSE r.e]

\* lines 257-272: Engine::evaluate resets the counters and keeps the table
search_evaluate(g, q, e) ==
    search_evaluate_at_depth(g, q, e.depth, EvalMIN, EvalMAX,
                             [e EXCEPT !.nodes = 0, !.transpositions = 0])

\* a game of one line, long enough to pass the cutoff
ChainNodes == 1..(TRANSPOSITION_DEPTH_CUTOFF + 2)
ChainGame(side, static) ==
    [ sk |-> 0,
      moves |-> [n \in ChainNodes |-> IF n + 1 \in ChainNodes THEN <<n + 1>> ELSE <<>>],
      player_to_move |-> [n \in ChainNodes |->
                            IF n % 2 = 1 THEN side ELSE opposite_color(side)],
      over |-> [n \in ChainNodes |-> "no"],
      static |-> static,
      rev |-> [n \in ChainNodes |-> FALSE] ]

\* the positions the engine of search.rs is asked to evaluate: the graph with
\* a transposition at depths 2 and 3, whose last moves may be captures, and
\* the long line at depths that reach the cutoff
AlphaBetaInit ==
    /\ \/ \E side \in {WHITE, BLACK}, s4 \in Cp, s5 \in Cp, s7 \in Cp, s8 \in Cp,
             c7 \in BOOLEAN, c8 \in BOOLEAN, r \in BOOLEAN :
            /\ depthCfg \in 2..3
            /\ game = MakeGame(2, side, 3,
                               [n \in NodesOf(2) |->
                                  [over |-> "no",
                                   static |-> <<0, 0, 0, s4, s5, 0, s7, s8>>[n]]],
                               [n \in NodesOf(2) |-> FALSE])
            /\ qs = [ pc |-> "search",
                      capture |-> [n \in NodesOf(2) |-> (n = 7 /\ c7) \/ (n = 8 /\ c8)],
                      in_check |-> [n \in NodesOf(2) |-> FALSE],
                      rev |-> [n \in NodesOf(2) |-> r],
                      hist |-> <<1>> ]
       \/ \E side \in {WHITE, BLACK}, s1 \in Cp, s2 \in Cp, c \in BOOLEAN :
            /\ depthCfg \in TRANSPOSITION_DEPTH_CUTOFF..(TRANSPOSITION_DEPTH_CUTOFF + 1)
            /\ game = ChainGame(side, [n \in ChainNodes |->
                                         IF n = TRANSPOSITION_DEPTH_CUTOFF + 1 THEN s1
                                         ELSE IF n = TRANSPOSITION_DEPTH_CUTOFF + 2 THEN s2
                                         ELSE 0])
            /\ qs = [ pc |-> "search",
                      capture |-> [n \in ChainNodes |-> n = TRANSPOSITION_DEPTH_CUTOFF + 2 /\ c],
                      in_check |-> [n \in ChainNodes |-> FALSE],
                      rev |-> [n \in ChainNodes |-> FALSE],
                      hist |-> <<1>> ]
    /\ table = NewEngine.tt
    /\ stats = [nodes |-> 0, transpositions |-> 0, stores |-> {}, probes |-> {}, calls |-> 0]
    /\ score = NoScore
    /\ drv = DrvIdle
    /\ mv = MvIdle
    /\ snd = SndIdle
    /\ tun = TunIdle
    /\ app = AppIdle

\* Engine::evaluate, on a fresh engine and once more with the table it left
AlphaBetaEvaluate ==
    /\ qs.pc = "search"
    /\ stats.calls < 2
    /\ LET r == search_evaluate(game, qs,
                                [depth |-> depthCfg, tt |-> table, nodes |-> stats.nodes,
                                 transpositions |-> stats.transpositions, hist |-> qs.hist,
                                 stores |-> stats.stores, probes |-> stats.probes])
       IN /\ score' = [done |-> TRUE, eval |-> r.eval]
          /\ table' = r.e.tt
          /\ stats' = [nodes |-> r.e.nodes, transpositions |-> r.e.transpositions,
                       stores |-> r.e.stores, probes |-> r.e.probes, calls |-> stats.calls + 1]
          /\ qs' = [qs EXCEPT !.hist = r.e.hist]
    /\ UNCHANGED <<game, depthCfg, drv, mv, snd, tun, app>>

AlphaBetaNext == AlphaBetaEvaluate

SpecAlphaBeta == AlphaBetaInit /\ [][AlphaBetaNext]_vars

(***************************************************************************)
(* The driver's claims.                                                    *)
(***************************************************************************)
\* C4 (as stated): once a depth ended with no worker returning Ok, no worker
\* of a greater depth is started, and the driver returns the best result of
\* the depths completed before
C4_NoWorkerAfterFailedDepth ==
    /\ \A d \in drv.endedFailed : \A w \in drv.started : w.depth <= d
    /\ drv.pc = "done" /\ drv.joinFailedAt = 0 => drv.result = drv.best_result

\* C5 (as stated): when joining a helper fails, the driver returns the best
\* result of the depths completed before, and an error only if there is none
C5_JoinFailureReturnsBest ==
    drv.pc = "done" /\ drv.joinFailedAt > 0 =>
        IF drv.best_result.ok THEN drv.result = drv.best_result ELSE ~drv.result.ok

\* the number of info messages emitted for depth d
InfoCount(d) == Cardinality({ i \in DOMAIN drv.messages : drv.messages[i] = d })

\* C6 (as stated): the depths of the info messages increase strictly, and
\* when the driver has ended there is exactly one message for each depth at
\* which some worker returned Ok and none for any other depth
C6_OneInfoPerCompletedDepth ==
    /\ \A i \in DOMAIN drv.messages, j \in DOMAIN drv.messages :
         i < j => drv.messages[i] < drv.messages[j]
    /\ drv.pc \in {"done", "panicked"} =>
         \A d \in 1..drv.config.depth :
            InfoCount(d) = IF d \in drv.okAt THEN 1 ELSE 0

(***************************************************************************)
(* The claims about Move.                                                  *)
(***************************************************************************)
\* the castling right a king move from square f towards square t uses, if any
CastleRightOf(f, t) ==
    IF f = E1 THEN (IF t % 8 < 4 THEN {"Q"} ELSE {"K"})
    ELSE IF f = E8 THEN (IF t % 8 < 4 THEN {"q"} ELSE {"k"})
    ELSE {}

\* C7 (as stated): from_uci tags a move as a castle only when the position
\* grants the castling right it uses; "e1c1" with the king on e1 and no
\* castling right is the normal move E1 -> C1
C7_CastleOnlyWithRight ==
    mv.pc = "done" /\ mv.op = "from_uci" /\ mv.result.ok =>
        /\ is_castle(mv.result.bits) =>
             LET f == from_algebraic(SubSeq(mv.text, 1, 2)).sq
                 t == from_algebraic(SubSeq(mv.text, 3, 4)).sq
             IN CastleRightOf(f, t) # {} /\ CastleRightOf(f, t) \subseteq mv.board.castle_rights
        /\ mv.text = <<"e", "1", "c", "1">> /\ E1 \in mv.board.kings
              /\ mv.board.castle_rights = {}
             => mv.result = new(E1, C1, None, FALSE, FALSE)

PromotionLetters == {"n", "b", "r", "q", "N", "B", "R", "Q"}

\* C8 (as stated): from_uci fails for a text whose length is neither 4 nor 5,
\* whose from- or to-square does not parse, or whose fifth character is not
\* one of N, B, R, Q in either case
C8_RejectsMalformedText ==
    (/\ mv.pc = "done"
     /\ mv.op = "from_uci"
     /\ \/ ~(Len(mv.text) \in {4, 5})
        \/ ~from_algebraic(SubSeq(mv.text, 1, 2)).ok
        \/ ~from_algebraic(SubSeq(mv.text, 3, 4)).ok
        \/ (Len(mv.text) = 5 /\ mv.text[5] \notin PromotionLetters))
    => ~mv.result.ok /\ ~mv.result.panic

\* C9 (as stated): an accepted text yields a promotion to the piece its fifth
\* character names exactly when it has five characters, the last one of
\* N, B, R, Q in either case, whatever stands on the from-square.  Only texts
\* of four characters and texts ending in one of these letters are examined
\* here; the other five-character texts are the subject of C8.
C9_PromotionIffFifthChar ==
    mv.pc = "done" /\ mv.op = "from_uci" /\ mv.result.ok
    /\ (Len(mv.text) = 5 => mv.text[5] \in PromotionLetters) =>
        IF Len(mv.text) = 5
        THEN /\ is_promotion(mv.result.bits)
             /\ promote_type(mv.result.bits) = from_code(to_ascii_uppercase(mv.text[5]))
        ELSE ~is_promotion(mv.result.bits) /\ promote_type(mv.result.bits) = None

\* C10 (as stated): the to-square is in bits 0..6 of the value, the
\* from-square in bits 6..12, the promotion piece in bits 12..14
C10_BitLayout ==
    mv.pc = "done" /\ mv.op = "new" /\ mv.result.ok =>
        /\ value(mv.result.bits) % 64 = mv.args.to_square
        /\ (value(mv.result.bits) \div 64) % 64 = mv.args.from_square
        /\ mv.args.promote_type.some =>
             (value(mv.result.bits) \div 4096) % 4 = mv.args.promote_type.p

\* the texts of the moves a move generator produces for a board, as far as
\* the text and the board tell: two different squares, and a promotion
\* letter (lowercase n, b, r, q) exactly on a pawn's move from its seventh
\* to its eighth rank
GeneratedText(t, board) ==
    /\ Len(t) \in {4, 5}
    /\ from_algebraic(SubSeq(t, 1, 2)).ok
    /\ from_algebraic(SubSeq(t, 3, 4)).ok
    /\ LET f == from_algebraic(SubSeq(t, 1, 2)).sq
           g == from_algebraic(SubSeq(t, 3, 4)).sq
           promoting == f \in board.pawns /\ f \div 8 = 6 /\ g \div 8 = 7
       IN /\ f # g
          /\ Len(t) = 5 <=> promoting
          /\ Len(t) = 5 => t[5] \in {"n", "b", "r", "q"}
          /\ f \in board.kings /\ chebyshev_to(f, g) > 1 =>
                CastleRightOf(f, g) # {} /\ CastleRightOf(f, g) \subseteq board.castle_rights

\* C11: parsing the text of a generated move against its board and printing
\* the result gives the text back, the promotion letter in lowercase
C11_UciRoundTrip ==
    mv.pc = "printed" /\ mv.op = "from_uci" /\ GeneratedText(mv.text, mv.board)
        => mv.out = mv.text

\* C11 witness: a promotion, a castle and an en-passant capture printed back
C11_Witness ==
    /\ mv.pc = "printed"
    /\ mv.op = "from_uci"
    /\ GeneratedText(mv.text, mv.board)
    /\ mv.out = mv.text
    /\ \/ Len(mv.text) = 5 /\ is_promotion(mv.result.bits)
       \/ is_en_passant(mv.result.bits)

(***************************************************************************)
(* The claims about build_message.                                         *)
(***************************************************************************)
\* the pieces that open an info field
FieldKeywords ==
    {"depth ", "seldepth ", "time ", "nodes ", "pv ", "multipv ", "score ",
     "currmove ", "currmovenumber ", "hashfull ", "nps ", "string "}

\* the line of the text that the i-th piece is on
LineOf(out, i) == Cardinality({ j \in 1..i : out[j] \in {"\ninfo ", "\n"} })

\* C12 (as stated): in the text of an Info message the line that holds a
\* String field holds no other field, whatever precedes or follows it
C12_StringOnOwnLine ==
    snd.pc = "done" /\ snd.message.kind = "Info" =>
        \A i \in DOMAIN snd.out, j \in DOMAIN snd.out :
            snd.out[i] = "string " /\ j # i /\ snd.out[j] \in FieldKeywords
                => LineOf(snd.out, j) # LineOf(snd.out, i)

\* C13 (as stated): the text of a BestMove message is "bestmove <uci> ",
\* then "ponder <uci>" when there is a ponder move, then a newline, both
\* moves in UCI move format
C13_BestMoveUci ==
    snd.pc = "done" /\ snd.message.kind = "BestMove" =>
        snd.out = <<"bestmove ">> \o to_uci(snd.message.m) \o <<" ">>
                  \o (IF snd.message.ponder.some
                      THEN <<"ponder ">> \o to_uci(snd.message.ponder.v) ELSE <<>>)
                  \o <<"\n">>

(***************************************************************************)
(* The claims about the tuner.                                             *)
(***************************************************************************)
\* C14 (as stated): the chunks train_step hands to its threads partition the
\* dataset: every sample index belongs to exactly one chunk, and every
\* sample's squared error is in the sum
C14_ChunksPartitionDataset ==
    tun.pc = "done" /\ tun.op = "train_step" =>
        /\ \A i \in 0..(Len(tun.inputs) - 1) :
              Cardinality({ t \in DOMAIN tun.trained.chunks : i \in tun.trained.chunks[t] }) = 1
        /\ tun.trained.sum_se
              = SumOver([i \in 1..Len(tun.inputs) |-> tun.inputs[i].se], 1..Len(tun.inputs))

\* the net count (White's minus Black's) of the pieces of type pt on board b
NetCount(b, pt) ==
    Cardinality({ q \in b.pieces : q.pt = pt /\ q.color = WHITE })
    - Cardinality({ q \in b.pieces : q.pt = pt /\ q.color = BLACK })

\* C15 (as stated): for every non-king piece type pt with a nonzero net count
\* the feature vector holds phase * net at index 2 * pt and
\* (1 - phase) * net at index 2 * pt + 1
C15_MaterialPair ==
    tun.pc = "done" /\ tun.op = "extract" =>
        \A pt \in {Knight, Bishop, Rook, Queen, Pawn} :
            NetCount(tun.board, pt) # 0 =>
                /\ \E k \in DOMAIN tun.features :
                     tun.features[k] = <<2 * pt, tun.board.phase * NetCount(tun.board, pt)>>
                /\ \E k \in DOMAIN tun.features :
                     tun.features[k]
                        = <<2 * pt + 1, (PhaseOne - tun.board.phase) * NetCount(tun.board, pt)>>

\* the net count of the pieces of type pt on board b that attack n squares
NetMobile(b, pt, n) ==
    Cardinality({ q \in b.pieces : q.pt = pt /\ q.color = WHITE /\ AttackCount(pt, q.sq) = n })
    - Cardinality({ q \in b.pieces : q.pt = pt /\ q.color = BLACK /\ AttackCount(pt, q.sq) = n })

\* C16 (as stated): the mobility feature at index
\* 778 + 2 * (MAX_MOBILITY * pt + n) is phase times the net count of the
\* pieces of type pt with n target squares, and absent when that count is 0
C16_MobilityBucket ==
    tun.pc = "done" /\ tun.op = "extract" =>
        \A pt \in 0..5, n \in 0..(MAX_MOBILITY - 1) :
            LET hits == { k \in DOMAIN tun.features :
                            tun.features[k][1] = 778 + 2 * (MAX_MOBILITY * pt + n) }
                net == NetMobile(tun.board, pt, n)
            IN IF net = 0 THEN hits = {}
               ELSE /\ Cardinality(hits) = 1
                    /\ \A k \in hits : tun.features[k][2] = tun.board.phase * net

(***************************************************************************)
(* The driver's workers and the result it records.                         *)
(***************************************************************************)
\* the workers evaluate has started for the depth being searched
StartedAt(depth) == { w \in drv.started : w.depth = depth }

\* C17: once the calling thread's search of a depth has run, the iteration has
\* spawned exactly n_helpers helper threads, so exactly n_helpers + 1 searches
\* of that depth were started
C17_HelpersPlusOne ==
    (drv.pc = "join") =>
        /\ Len(drv.handles) = drv.config.n_helpers
        /\ Cardinality(StartedAt(drv.depth)) = drv.config.n_helpers + 1

\* the depth whose join loop has just been left
JoinedDepth == IF drv.pc = "panicked" THEN drv.depth ELSE drv.depth - 1

RECURSIVE UnifyWithAll(_, _)
UnifyWithAll(first, rest) ==
    IF rest = <<>> THEN first
    ELSE UnifyWithAll(unify_with(first, Head(rest)), Tail(rest))

\* the results of the helpers of the joined depth that returned Ok
HelperResults ==
    LET oks == SelectSeq(drv.handles, LAMBDA h : h = "ok")
    IN [i \in 1..Len(oks) |-> search(JoinedDepth, FALSE, FALSE)]

\* C18: after a depth is joined and recorded, if the calling thread's worker
\* and some helper returned Ok the recorded result is the calling thread's
\* result unified with every successful helper's result, and if the calling
\* thread's worker failed and some helper returned Ok it is that helper's result
C18_RecordedResultUnifiesHelpers ==
    (/\ drv.pc \in {"loop", "panicked"}
     /\ Len(drv.handles) > 0
     /\ drv.next > Len(drv.handles)
     /\ Len(HelperResults) > 0) =>
        IF drv.main_result.ok
        THEN drv.best_result = UnifyWithAll(drv.main_result, HelperResults)
        ELSE drv.best_result = HelperResults[1]

\* C19: every worker still running searches the depth of the current
\* iteration, every worker of a shallower depth has returned before a worker
\* of a deeper one is started, and the driver waits for nothing outside the
\* join loop
C19_DepthsJoinedInOrder ==
    /\ \A w \in drv.started \ drv.finished : w.depth = drv.depth
    /\ \A w \in drv.started : \A v \in drv.started :
          v.depth < w.depth => v \in drv.finished
    /\ (drv.pc = "loop") => ENABLED (Spawn \/ Return)
    /\ (drv.pc = "local") => ENABLED LocalSearch
    /\ (drv.pc = "join" /\ drv.next > Len(drv.handles)) => ENABLED Publish

\* a helper of depth 2 is still running in the join loop after every worker
\* of depth 1 has returned
C19_Witness ==
    /\ drv.pc = "join"
    /\ drv.depth = 2
    /\ \E i \in DOMAIN drv.handles : drv.handles[i] = "running"
    /\ StartedAt(1) # {}
    /\ StartedAt(1) \subseteq drv.finished

(***************************************************************************)
(* The quiescent search's claims.                                          *)
(***************************************************************************)
\* the root's static evaluation fails high against the window
FailsHigh ==
    IF game.player_to_move[1] = WHITE THEN evaluator(game, 1) >= qs.beta
    ELSE evaluator(game, 1) <= qs.alpha

\* C20: for a position that is not a check, quiesce returns the static
\* evaluation itself when it fails high against the window, and never a value
\* worse for the side to move than the static evaluation
C20_StandPat ==
    (qs.pc = "done" /\ ~currently_in_check(qs, 1)) =>
        /\ FailsHigh => qs.eval = evaluator(game, 1)
        /\ IF game.player_to_move[1] = WHITE
           THEN qs.eval >= evaluator(game, 1)
           ELSE qs.eval <= evaluator(game, 1)

QsCaptures == { n \in QsNodes : IsCapture(qs, n) }
QsChecks == { n \in QsNodes : currently_in_check(qs, n) }

C22_NoStoreBelowCutoff ==
    \A w \in stats.stores : w.below_root < TRANSPOSITION_DEPTH_CUTOFF

\* C23: a hit of the table (stored depth at least the remaining depth) whose
\* entry is exact, or a lower bound at or above beta, or an upper bound at or
\* below alpha, makes evaluate_at_depth return at once
C23_HitReturnsAtOnce ==
    \A p \in stats.probes :
        (\/ p.entry.lower_bound = p.entry.upper_bound
         \/ p.entry.lower_bound >= p.beta_in
         \/ p.entry.upper_bound <= p.alpha_in) => p.returned

\* the entry the claim gives a node searched to the depth with the stepped-back
\* result best under the window passed in
ClassifiedAgainst(depth, best, alpha_in, beta_in) ==
    IF best <= alpha_in THEN EvalData(depth, EvalMIN, best)
    ELSE IF best >= beta_in THEN EvalData(depth, best, EvalMAX)
    ELSE EvalData(depth, best, best)

\* C24: the entry written for an interior node is an upper bound iff the
\* stepped-back result is at or below alpha_in, a lower bound iff it is at or
\* above beta_in, and exact otherwise
C24_ClassifiedAgainstWindowIn ==
    \A w \in stats.stores :
        (~w.horizon /\ w.alpha_in < w.beta_in) =>
            w.entry = ClassifiedAgainst(w.depth, w.evaluation, w.alpha_in, w.beta_in)

(***************************************************************************)
(* The piece-square features of extract.                                   *)
(***************************************************************************)
\* the net value the claim gives the piece-square feature of (pt, sq)
PstNet(b, pt, sq) ==
    LET w == [pt |-> pt, color |-> WHITE, sq |-> sq] \in b.pieces
        k == [pt |-> pt, color |-> BLACK, sq |-> opposite(sq)] \in b.pieces
    IN IF w /\ ~k THEN 1 ELSE IF k /\ ~w THEN 0 - 1 ELSE 0

\* C25: the piece-square feature of (pt, sq), at index 10 + 128 * pt + 2 * sq
\* and the next, is the net value +1, -1 blended by phase, and absent when the
\* net value is 0
C25_PieceSquareFeature ==
    tun.pc = "done" /\ tun.op = "extract" =>
        \A pt \in 0..5, sq \in 0..63 :
            LET idx == 10 + 128 * pt + 2 * sq
                net == PstNet(tun.board, pt, sq)
                hits == { k \in DOMAIN tun.features : tun.features[k][1] \in {idx, idx + 1} }
            IN IF net = 0 THEN hits = {}
               ELSE /\ Cardinality(hits) = 2
                    /\ \E k \in hits : tun.features[k] = <<idx, tun.board.phase * net>>
                    /\ \E k \in hits :
                         tun.features[k] = <<idx + 1, (PhaseOne - tun.board.phase) * net>>

(***************************************************************************)
(* The reference for the table's entries: the search without window and    *)
(* without table, the quiescent search at the horizon, step_back applied   *)
(* once per interior ply.                                                  *)
(***************************************************************************)
BestOf(player, vals) ==
    IF player = WHITE THEN CHOOSE v \in vals : \A w \in vals : w <= v
    ELSE CHOOSE v \in vals : \A w \in vals : w >= v

RECURSIVE PlainQuiesce(_, _, _)
PlainQuiesce(g, q, b) ==
    LET moves == SearchedMoves(q, b, get_moves(g, b))
    IN IF Len(moves) = 0 THEN evaluator(g, b)
       ELSE BestOf(g.player_to_move[b], { PlainQuiesce(g, q, moves[i]) : i \in DOMAIN moves })

RECURSIVE PlainSearch(_, _, _, _)
PlainSearch(g, q, depth, b) ==
    IF depth <= 0 \/ is_game_over(g, b) THEN PlainQuiesce(g, q, b)
    ELSE step_back(BestOf(g.player_to_move[b],
                          { PlainSearch(g, q, depth - 1, get_moves(g, b)[i]) :
                              i \in DOMAIN get_moves(g, b) }))

\* C26: every entry (depth, lower_bound, upper_bound) written for a position
\* bounds the plain value of that depth of the position from below and above
C26_EntriesSound ==
    \A w \in stats.stores :
        /\ w.entry.lower_bound <= PlainSearch(game, qs, w.depth, w.board)
        /\ PlainSearch(game, qs, w.depth, w.board) <= w.entry.upper_bound

(***************************************************************************)
(* The accessors of a Move that Move::new made.                            *)
(***************************************************************************)
\* C27: Move::new fails only when castle and en_passant are both asked for,
\* and the move it makes reports the squares, the promotion piece and the
\* flags it was given
C27_NewReportsWhatWasAsked ==
    mv.pc = "done" /\ mv.op = "new" =>
        /\ mv.result.ok <=> ~(mv.args.castle /\ mv.args.en_passant)
        /\ mv.result.ok =>
             /\ from_square(mv.result.bits) = mv.args.from_square
             /\ to_square(mv.result.bits) = mv.args.to_square
             /\ promote_type(mv.result.bits) = mv.args.promote_type
             /\ is_castle(mv.result.bits) = mv.args.castle
             /\ is_en_passant(mv.result.bits) = mv.args.en_passant
             /\ is_promotion(mv.result.bits) = mv.args.promote_type.some

(***************************************************************************)
(* The nodes per second of the info event.                                 *)
(***************************************************************************)
\* C28: computing the nodes per second never fails, whatever the elapsed
\* time: the driver never stops in the division, and every depth whose joined
\* result is Ok has its info event
C28_NpsNeverFails ==
    /\ drv.pc # "panicked"
    /\ (drv.pc = "loop" /\ Len(drv.handles) > 0 /\ drv.sub_result.ok) =>
          (Len(drv.messages) > 0 /\ drv.messages[Len(drv.messages)] = drv.depth - 1)

(***************************************************************************)
(* The Game after a search.                                                *)
(***************************************************************************)
\* C29: evaluate_at_depth and quiesce leave the Game as they found it: when
\* the search returns, the position and the move history are those it was
\* called on, whether it stopped on a cut, returned from the table or ran on
C29_GameRestored == qs.pc = "search" => qs.hist = <<1>>

\* a second search returned bounds from the table, some node was cut and
\* stored a bound, and the horizon had a capture for quiesce to make
C29_Witness ==
    /\ qs.pc = "search"
    /\ stats.calls = 2
    /\ stats.transpositions > 0
    /\ \E p \in stats.probes : p.returned
    /\ \E s \in stats.stores :
          ~s.horizon /\ s.entry.lower_bound # s.entry.upper_bound
    /\ \E n \in DOMAIN qs.capture : qs.capture[n]
    /\ stats.nodes > 1
    /\ qs.hist = <<1>>

(***************************************************************************)
(* The command line application: cli.rs.  A line of input is the sequence  *)
(* of its characters.  Game, Game::from_fen and move_from_algebraic are    *)
(* not in the sources under study: a Game is the position it was set up    *)
(* from and the number of moves played on it, a FEN is valid when it is    *)
(* one of ValidFens, a move text is a move when it is one of MoveTexts.    *)
(***************************************************************************)
MaxPlayed == 2

Whitespace == {" ", "\n"}
Digits == <<"0", "1", "2", "3", "4", "5", "6", "7", "8", "9">>

\* str::split_ascii_whitespace: the tokens of s from its i-th character on
RECURSIVE SplitFrom(_, _, _, _)
SplitFrom(s, i, cur, acc) ==
    IF i > Len(s) THEN (IF cur = <<>> THEN acc ELSE Append(acc, cur))
    ELSE IF s[i] \in Whitespace
         THEN SplitFrom(s, i + 1, <<>>, IF cur = <<>> THEN acc ELSE Append(acc, cur))
         ELSE SplitFrom(s, i + 1, Append(cur, s[i]), acc)
split_ascii_whitespace(s) == SplitFrom(s, 1, <<>>, <<>>)

\* str::trim
RECURSIVE trim_start(_)
trim_start(s) ==
    IF s # <<>> /\ s[1] \in Whitespace THEN trim_start(Tail(s)) ELSE s
RECURSIVE trim_end(_)
trim_end(s) ==
    IF s # <<>> /\ s[Len(s)] \in Whitespace THEN trim_end(SubSeq(s, 1, Len(s) - 1)) ELSE s
trim(s) == trim_end(trim_start(s))

\* str::parse::<usize>: [ok, num]
RECURSIVE DigitsValue(_, _)
DigitsValue(t, acc) ==
    IF t = <<>> THEN acc
    ELSE DigitsValue(Tail(t), 10 * acc + (CHOOSE d \in 1..10 : Digits[d] = t[1]) - 1)
parse_usize(t) ==
    LET digits == IF t # <<>> /\ t[1] = "+" THEN Tail(t) ELSE t
    IN IF digits # <<>> /\ \A i \in 1..Len(digits) : \E d \in 1..10 : Digits[d] = digits[i]
       THEN [ok |-> TRUE, num |-> DigitsValue(digits, 0)]
       ELSE [ok |-> FALSE, num |-> 0]

\* lines 42-71: the commands; arg is the text of EngineSelect and LoadFen and
\* the message of EchoError, n the count of Undo
Command(kind, arg, n) == [kind |-> kind, arg |-> arg, n |-> n]
ParseOk(cmd) == [ok |-> TRUE, cmd |-> cmd, err |-> ""]
ParseErr(s) == [ok |-> FALSE, cmd |-> Command("None", <<>>, 0), err |-> s]

ValidFens == { <<"F">> }
MoveTexts == { <<"e", "4">> }
DefaultGame == [board |-> <<>>, played |-> 0]

\* Game::from_fen
from_fen(fen) ==
    IF fen \in ValidFens THEN [ok |-> TRUE, game |-> [board |-> fen, played |-> 0], err |-> ""]
    ELSE [ok |-> FALSE, game |-> DefaultGame, err |-> "invalid FEN"]

\* move_from_algebraic
move_from_algebraic(token, g) ==
    IF token \in MoveTexts THEN [ok |-> TRUE, err |-> ""]
    ELSE [ok |-> FALSE, err |-> "not a move"]

\* lines 140-192
parse_command(s, g) ==
    LET tokens == split_ascii_whitespace(s)
    IN IF tokens = <<>> THEN ParseErr("no token given")
       ELSE LET command_block == tokens[1]
                rest == trim(SubSeq(s, Len(command_block) + 1, Len(s)))
            IN IF command_block[1] = "/"
               THEN LET command_name == Tail(command_block)
                    IN IF command_name \in { <<"q">>, <<"q", "u", "i", "t">> }
                       THEN ParseOk(Command("Quit", <<>>, 0))
                       ELSE IF command_name \in { <<"e">>, <<"e", "n", "g", "i", "n", "e">> }
                       THEN ParseOk(Command("EngineSelect", rest, 0))
                       ELSE IF command_name \in { <<"l">>, <<"l", "o", "a", "d">> }
                       THEN ParseOk(Command("LoadFen", rest, 0))
                       ELSE IF command_name \in { <<"u">>, <<"u", "n", "d", "o">> }
                       THEN IF Len(tokens) < 2 THEN ParseOk(Command("Undo", <<>>, 1))
                            ELSE LET num == parse_usize(tokens[2])
                                 IN IF ~num.ok
                                    THEN ParseErr("could not parse number of moves to undo")
                                    ELSE IF num.num > 0
                                    THEN ParseOk(Command("Undo", <<>>, num.num))
                                    ELSE ParseErr("cannot undo 0 moves")
                       ELSE IF command_name = <<"l", "i", "s", "t">>
                       THEN ParseOk(Command("ListMoves", <<>>, 0))
                       ELSE ParseErr("unrecognized command")
               ELSE LET move_result == move_from_algebraic(command_block, g)
                    IN IF move_result.ok THEN ParseOk(Command("PlayMove", command_block, 0))
                       ELSE ParseErr(move_result.err)

\* a load that would put a game in place whatever from_fen answered
load_fen_unchecked(g, fen) ==
    [game |-> from_fen(fen).game, ok |-> from_fen(fen).ok, err |-> from_fen(fen).err]

\* lines 221-229: [game, ok, err]
load_fen(g, fen) ==
    LET r == from_fen(fen)
    IN IF r.ok THEN [game |-> r.game, ok |-> TRUE, err |-> ""]
       ELSE [game |-> g, ok |-> FALSE, err |-> r.err]

\* Game::undo_n: takes back n moves, fails when the history runs out
undo_n(g, n) ==
    IF n <= g.played THEN [game |-> [g EXCEPT !.played = @ - n], ok |-> TRUE, err |-> ""]
    ELSE [game |-> [g EXCEPT !.played = 0], ok |-> FALSE, err |-> "no moves to undo"]

\* lines 231-241: the user's move and the engine's reply
try_move(g) == [game |-> [g EXCEPT !.played = @ + 2], ok |-> TRUE, err |-> ""]

\* the lines the application is fed: end of input, an empty line, the
\* commands, a move, and texts that are none of these
LineEof == <<>>
LineEmpty == <<"\n">>
LineQ == <<"/", "q", "\n">>
LineQuit == <<"/", "q", "u", "i", "t", "\n">>
LineUnknown == <<"/", "x", "\n">>
LineSlash == <<"/", "\n">>
LineUndo == <<"/", "u", "\n">>
LineUndoZero == <<"/", "u", " ", "0", "\n">>
LineUndoTwo == <<"/", "u", "n", "d", "o", " ", "2", "\n">>
LineUndoText == <<"/", "u", " ", "x", "\n">>
LineLoad == <<"/", "l", " ", "F", "\n">>
LineBadFen == <<"/", "l", "o", "a", "d", " ", "B", "\n">>
LineEngine == <<"/", "e", " ", "m", "\n">>
LineList == <<"/", "l", "i", "s", "t", "\n">>
LineMove == <<"e", "4", "\n">>
LineBadMove == <<"z", "z", "\n">>
Lines ==
    { LineEof, LineEmpty, LineQ, LineQuit, LineUnknown, LineSlash, LineUndo, LineUndoZero,
      LineUndoTwo, LineUndoText, LineLoad, LineBadFen, LineEngine, LineList, LineMove,
      LineBadMove }

NoCommand == Command("None", <<>>, 0)
CommandOk == [ok |-> TRUE, err |-> ""]
CommandErr(s) == [ok |-> FALSE, err |-> s]

\* writeln!(self.output_stream, ...): the line is on the output when the
\* write succeeded
Written(out, ok, kind, text) ==
    IF ok THEN Append(out, [kind |-> kind, text |-> text]) ELSE out

\* CrabchessApp::default() about to run; out is what the application wrote
\* since it read the current line
CliInit ==
    /\ app = [ pc |-> "read", game |-> DefaultGame, entry |-> DefaultGame,
               user_input |-> <<>>, command |-> NoCommand, execution_result |-> CommandOk,
               has_quit |-> FALSE, out |-> <<>>, write_failed |-> FALSE, result |-> "none" ]
    /\ depthCfg = 1
    /\ game = MakeGame(1, WHITE, 1, [n \in NodesOf(1) |-> [over |-> "no", static |-> 0]],
                       [n \in NodesOf(1) |-> FALSE])
    /\ table = NewEngine.tt
    /\ stats = [nodes |-> 0, transpositions |-> 0]
    /\ score = NoScore
    /\ drv = DrvIdle
    /\ mv = MvIdle
    /\ snd = SndIdle
    /\ tun = TunIdle
    /\ qs = QsIdle

\* lines 96-108: the loop test and the read of one line; a failed read is
\* written to the output and leaves in user_input what was read before it
ReadLine ==
    /\ app.pc = "read"
    /\ ~app.has_quit
    /\ \E line \in Lines, read_ok \in BOOLEAN, w \in BOOLEAN :
          LET out == IF read_ok THEN <<>>
                     ELSE Written(<<>>, w, "failed to read off of input stream", "")
          IN app' = [app EXCEPT
                       !.pc = IF ~read_ok /\ ~w THEN "returned" ELSE "parse",
                       !.result = IF ~read_ok /\ ~w THEN "Err" ELSE @,
                       !.entry = app.game,
                       !.user_input = line,
                       !.command = NoCommand,
                       !.execution_result = CommandOk,
                       !.out = out,
                       !.write_failed = ~read_ok /\ ~w]
    /\ UNCHANGED <<game, depthCfg, table, score, stats, drv, mv, snd, tun, qs>>

\* lines 110-114
ParseCommand ==
    /\ app.pc = "parse"
    /\ LET parse_result == parse_command(app.user_input, app.game)
       IN app' = [app EXCEPT
                    !.pc = "execute",
                    !.command = IF parse_result.ok THEN parse_result.cmd
                                ELSE Command("EchoError", parse_result.err, 0)]
    /\ UNCHANGED <<game, depthCfg, table, score, stats, drv, mv, snd, tun, qs>>

\* lines 194-255: [game, ok, err, out, write_failed] for a write that succeeds (w) or fails
execute_command(g, c, out, w) ==
    LET same(ok, err, kind, text) ==
            [game |-> g, ok |-> ok, err |-> err, out |-> Written(out, w, kind, text),
             write_failed |-> ~w]
        quiet(r) ==
            [game |-> r.game, ok |-> r.ok, err |-> r.err, out |-> out, write_failed |-> FALSE]
    IN CASE c.kind = "EchoError" ->
              same(w, IF w THEN "" ELSE "failed to write error to output stream",
                   "error", c.arg)
         [] c.kind = "LoadFen" -> quiet(load_fen(g, c.arg))
         [] c.kind = "PlayMove" -> quiet(try_move(g))
         [] c.kind = "ListMoves" ->
              same(w, IF w THEN "" ELSE "failed to write move list", "move", "")
         [] c.kind = "Undo" -> quiet(undo_n(g, c.n))
         [] OTHER ->
              same(w, IF w THEN "" ELSE "write failed", "the command type is unsupported", "")

\* lines 116-123
ExecuteCommand ==
    /\ app.pc = "execute"
    /\ app.command.kind = "PlayMove" => app.game.played + 2 <= MaxPlayed
    /\ \E w \in BOOLEAN :
          IF app.command.kind = "Quit"
          THEN app' = [app EXCEPT
                         !.has_quit = TRUE,
                         !.out = Written(@, w, "Now quitting.", ""),
                         !.write_failed = @ \/ ~w,
                         !.execution_result = CommandOk,
                         !.pc = IF w THEN "report" ELSE "returned",
                         !.result = IF w THEN @ ELSE "Err"]
          ELSE LET r == execute_command(app.game, app.command, app.out, w)
               IN app' = [app EXCEPT
                            !.game = r.game,
                            !.out = r.out,
                            !.write_failed = @ \/ r.write_failed,
                            !.execution_result = [ok |-> r.ok, err |-> r.err],
                            !.pc = "report"]
    /\ UNCHANGED <<game, depthCfg, table, score, stats, drv, mv, snd, tun, qs>>

\* lines 125-133: the report of a failed execution, and the loop test that
\* ends run after Quit
Report ==
    /\ app.pc = "report"
    /\ \E w \in BOOLEAN :
          LET failed == ~app.execution_result.ok
              lost == failed /\ ~w
          IN app' = [app EXCEPT
                       !.out = IF failed
                               THEN Written(@, w, "an error occurred while executing the command",
                                            app.execution_result.err)
                               ELSE @,
                       !.write_failed = @ \/ lost,
                       !.pc = IF lost \/ app.has_quit THEN "returned" ELSE "read",
                       !.result = IF lost THEN "Err"
                                  ELSE IF app.has_quit THEN "Ok" ELSE @]
    /\ UNCHANGED <<game, depthCfg, table, score, stats, drv, mv, snd, tun, qs>>

CliNext == ReadLine \/ ParseCommand \/ ExecuteCommand \/ Report

SpecCli == CliInit /\ [][CliNext]_vars

(***************************************************************************)
(* The loop of the command line application.                               *)
(***************************************************************************)
\* the lines that fail to parse and the line whose command fails
FirstToken(s) == split_ascii_whitespace(s)[1]
FailingLines ==
    { LineEof, LineEmpty, LineUnknown, LineSlash, LineUndoZero, LineUndoText, LineBadMove,
      LineBadFen }
Reports(out) ==
    \E i \in 1..Len(out) :
       \/ out[i].kind = "error"
       \/ /\ out[i].kind = "an error occurred while executing the command"
          /\ out[i].text = "invalid FEN"

\* C30: run returns Ok only after a Quit was parsed and Err only after a
\* write to the output failed; a line that fails to parse, or whose command
\* fails, leaves the game as it was, and when the writes succeed it is
\* reported on the output and the loop goes on to the next line
C30_RunLoop ==
    /\ (app.pc = "returned" /\ app.result = "Ok") =>
          /\ app.command.kind = "Quit"
          /\ FirstToken(app.user_input) \in { <<"/", "q">>, <<"/", "q", "u", "i", "t">> }
    /\ (app.pc = "returned" /\ app.result = "Err") => app.write_failed
    /\ app.pc = "returned" => app.result \in {"Ok", "Err"}
    /\ (app.pc \in {"read", "returned"} /\ app.result # "none") => app.pc = "returned"
    /\ (app.pc \in {"report", "read", "returned"} /\ app.user_input \in FailingLines
          /\ app.command # NoCommand) =>
          /\ app.game = app.entry
          /\ app.pc = "returned" => app.write_failed
          /\ (app.pc = "read" /\ ~app.write_failed) => Reports(app.out)
          /\ ~app.has_quit

\* an invalid FEN was given to a game that had been loaded and played on:
\* the failure is on the output, the game is the one before, the loop reads on
C30_Witness ==
    /\ app.pc = "read"
    /\ app.user_input = LineBadFen
    /\ app.command.kind = "LoadFen"
    /\ app.game = [board |-> <<"F">>, played |-> 2]
    /\ app.out = << [kind |-> "an error occurred while executing the command",
                     text |-> "invalid FEN"] >>

====
